---- MODULE Spec2Model ----
(***************************************************************************)
(* A model of the Monkey interpreter: the Pratt parser (package parser),   *)
(* the object model (package object) and the tree-walking evaluator        *)
(* (package evaluator).  Parsing and evaluation are translated function by *)
(* function into operators that thread the mutable state (the parser's     *)
(* cursor and error list; the evaluator's environments) through their      *)
(* results.  The state machine is the pipeline a host runs: parse the      *)
(* token stream, then evaluate the program in a fresh environment.         *)
(***************************************************************************)
EXTENDS Integers, Sequences, FiniteSets, TLC

VARIABLES
    input,    \* the token stream handed to the parser (the lexer's output)
    pc,       \* "ready" -> "parsed" -> "done"; "panic" when Go panics
    program,  \* the *ast.Program returned by ParseProgram
    errors,   \* Parser.errors
    parser,   \* the Parser: as constructed, then as ParseProgram left it
    result,   \* the object.Object returned by Eval for the program
    prior,    \* the result of the previous evaluation of the same program
    runs,     \* how many times the program has been evaluated
    heap,     \* the object.Environment values allocated by the last run
    events,   \* what the last run did, in order (see Note)
    hashA,    \* HashKey study: first hashable object
    hashB,    \* HashKey study: second hashable object
    keyA,     \* HashKey study: hashA.HashKey()
    keyB      \* HashKey study: hashB.HashKey()

vars == <<input, pc, program, errors, parser, result, prior, runs, heap,
          events, hashA, hashB, keyA, keyB>>

(***************************************************************************)
(* Bounds of the model.                                                    *)
(***************************************************************************)
MaxInt == 1        \* integer literals of the inputs are 0..MaxInt
MaxDepth == 2      \* nesting depth of if-blocks in the inputs
MaxTokens == 3     \* length of the exhaustively enumerated token streams
MaxChoices == 2    \* map-iteration choices explored per evaluation
MaxRuns == 2       \* evaluations of one program, each from a fresh environment
MaxStrLen == 2     \* length of the strings whose HashKey is studied
MaxHashInt == 2    \* HashKey is studied on integers -MaxHashInt..MaxHashInt

None == [kind |-> "none"]

(***************************************************************************)
(* token.Token.  Pos is the index of the token in the stream; a node of    *)
(* the AST keeps its token, and (node type, Pos) stands for the node's     *)
(* address.                                                                *)
(***************************************************************************)
Tok(type, lit) == [Type |-> type, Literal |-> lit]

keywords ==
    ("fn" :> "FUNCTION") @@ ("let" :> "LET") @@ ("true" :> "TRUE") @@
    ("false" :> "FALSE") @@ ("if" :> "IF") @@ ("else" :> "ELSE") @@
    ("return" :> "RETURN")

LookupIdent(ident) ==
    IF ident \in DOMAIN keywords THEN keywords[ident] ELSE "IDENT"

(***************************************************************************)
(* lexer.Lexer.NextToken over an already-split input: the next token, and  *)
(* EOF again and again once the input is exhausted.                        *)
(***************************************************************************)
NextToken(lex) ==
    IF lex.position <= Len(lex.input)
    THEN [tok |-> [Type |-> lex.input[lex.position].Type,
                   Literal |-> lex.input[lex.position].Literal,
                   Pos |-> lex.position],
          lex |-> [lex EXCEPT !.position = @ + 1]]
    ELSE [tok |-> [Type |-> "EOF", Literal |-> "", Pos |-> Len(lex.input) + 1],
          lex |-> lex]

(***************************************************************************)
(* Precedence levels and the precedence table.                             *)
(***************************************************************************)
LOWEST == 1
EQUALS == 2
LESSGREATER == 3
SUM == 4
PRODUCT == 5
PREFIX == 6
CALL == 7
INDEX == 8

precedences ==
    ("ASSIGN" :> EQUALS) @@ ("EQ" :> EQUALS) @@ ("NOT_EQ" :> EQUALS) @@
    ("LT" :> LESSGREATER) @@ ("GT" :> LESSGREATER) @@
    ("PLUS" :> SUM) @@ ("MINUS" :> SUM) @@
    ("SLASH" :> PRODUCT) @@ ("ASTERISK" :> PRODUCT) @@
    ("LPAREN" :> CALL) @@ ("LBRACKET" :> INDEX)

(***************************************************************************)
(* AST nodes.  NilExpr is the nil interface value; NilLetStatement is the  *)
(* nil *ast.LetStatement, which is a non-nil ast.Statement.                *)
(***************************************************************************)
NilExpr == [node |-> "nil"]
NilLetStatement == [node |-> "nil *ast.LetStatement"]

IsNil(n) == n.node = "nil"

(***************************************************************************)
(* The parser.  A parser value p holds Parser's fields; `panicked` is set  *)
(* when a Go run-time panic unwinds the parse, after which no operation    *)
(* changes p.  `iterations` does not exist in the program: it records,    *)
(* each time one of the parser's loops goes round again, the loop and the  *)
(* position of the current token at the start of the iteration that ended  *)
(* (from) and of the one that begins (to).                                 *)
(***************************************************************************)
nextToken(p) ==
    IF p.panicked THEN p
    ELSE LET nt == NextToken(p.lex)
         IN  [p EXCEPT !.currToken = p.peekToken, !.peekToken = nt.tok,
                       !.lex = nt.lex]

New(lex) ==
    nextToken(nextToken(
        [lex |-> lex,
         currToken |-> [Type |-> "", Literal |-> "", Pos |-> 0],
         peekToken |-> [Type |-> "", Literal |-> "", Pos |-> 0],
         errors |-> <<>>,
         panicked |-> FALSE,
         iterations |-> <<>>]))

\* the loop goes round: its last iteration began with parser p and the
\* next begins with parser q
iterated(loop, p, q) ==
    [q EXCEPT !.iterations = Append(@, [loop |-> loop,
                                        from |-> p.currToken.Pos,
                                        to |-> q.currToken.Pos])]

addError(p, msg) ==
    IF p.panicked THEN p ELSE [p EXCEPT !.errors = Append(@, msg)]

peekTokenIs(p, t) == p.peekToken.Type = t

curTokenIs(p, t) == p.currToken.Type = t

peekError(p, t) ==
    addError(p, "Expected next token to be " \o t \o ", but got "
                 \o p.peekToken.Type \o " instead")

\* the parser after the call, and the call's boolean result
expectPeek(p, t) ==
    IF peekTokenIs(p, t)
    THEN [ok |-> TRUE, p |-> nextToken(p)]
    ELSE [ok |-> FALSE, p |-> peekError(p, t)]

\* (recording nothing)
noPrefixParseFnError_silent(p, t) == p

\* (the Go message quotes the literal with backquotes, written ' here)
noPrefixParseFnError(p, t) ==
    addError(p, "no prefix parse function for token " \o t.Type \o " '"
                 \o t.Literal \o "' found")

peekPrecedence(p) ==
    IF p.peekToken.Type \in DOMAIN precedences
    THEN precedences[p.peekToken.Type]
    ELSE LOWEST

currPrecedence(p) ==
    IF p.currToken.Type \in DOMAIN precedences
    THEN precedences[p.currToken.Type]
    ELSE LOWEST

\* the token types registered in New by registerPrefix / registerInfix
prefixParseFns ==
    {"IDENT", "INT", "BANG", "MINUS", "TRUE", "FALSE", "LPAREN", "IF",
     "FUNCTION", "STRING", "LBRACKET", "LBRACE"}

infixParseFns ==
    {"PLUS", "MINUS", "SLASH", "ASTERISK", "EQ", "ASSIGN", "NOT_EQ", "LT",
     "GT", "LPAREN", "LBRACKET"}

(***************************************************************************)
(* strconv.ParseInt(literal, 0, 64) on a run of decimal digits.  Digits    *)
(* spells out the bytes of the literals the inputs use.  Base 0 takes a    *)
(* leading "0" followed by more digits as the octal prefix.                *)
(***************************************************************************)
Digits ==
    ("0" :> <<0>>) @@ ("1" :> <<1>>) @@ ("2" :> <<2>>) @@ ("3" :> <<3>>) @@
    ("4" :> <<4>>) @@ ("5" :> <<5>>) @@ ("6" :> <<6>>) @@ ("7" :> <<7>>) @@
    ("8" :> <<8>>) @@ ("9" :> <<9>>) @@ ("10" :> <<1, 0>>) @@
    ("010" :> <<0, 1, 0>>) @@ ("08" :> <<0, 8>>) @@ ("007" :> <<0, 0, 7>>)

RECURSIVE Horner(_, _, _)
Horner(ds, base, acc) ==
    IF ds = <<>> THEN acc ELSE Horner(Tail(ds), base, acc * base + Head(ds))

ParseInt(literal) ==
    LET convert(ds) ==
            IF Len(ds) > 1 /\ ds[1] = 0
            THEN IF \E i \in 2..Len(ds) : ds[i] > 7
                 THEN [ok |-> FALSE, value |-> 0]
                 ELSE [ok |-> TRUE, value |-> Horner(Tail(ds), 8, 0)]
            ELSE [ok |-> TRUE, value |-> Horner(ds, 10, 0)]
    IN  convert(Digits[literal])

(***************************************************************************)
(* Parselets.  Each returns the node it built (n) and the parser after it  *)
(* (p).  A slice-valued parselet also returns isNil, TRUE for the nil      *)
(* slice.  The result of a call is named by handing it to a local          *)
(* operator, LET k(r) == ... IN k(call), which reads bottom-up: the last   *)
(* local operator is the first step of the Go function.                    *)
(***************************************************************************)
RECURSIVE parseStatement(_)
RECURSIVE parseExpression(_, _)
RECURSIVE parseExpressionLoop(_, _, _)
RECURSIVE parseBlockStatementLoop(_, _, _)
RECURSIVE parseExpressionListLoop(_, _, _)
RECURSIVE parseHashLiteralLoop(_, _, _)

parseIdentifier(p) ==
    [n |-> [node |-> "Identifier", Token |-> p.currToken,
            Value |-> p.currToken.Literal],
     p |-> p]

parseIntegerLiteral(p) ==
    LET literal(r) ==
            IF ~r.ok
            THEN [n |-> NilExpr,
                  p |-> addError(p, "Could not parse \""
                                     \o p.currToken.Literal
                                     \o "\" as integer")]
            ELSE [n |-> [node |-> "IntegerLiteral", Token |-> p.currToken,
                         IntValue |-> r.value],
                  p |-> p]
    IN  literal(ParseInt(p.currToken.Literal))

parseBoolean(p) ==
    [n |-> [node |-> "Boolean", Token |-> p.currToken,
            BoolValue |-> curTokenIs(p, "TRUE")],
     p |-> p]

parseStringLiteral(p) ==
    [n |-> [node |-> "StringLiteral", Token |-> p.currToken,
            Value |-> p.currToken.Literal],
     p |-> p]

parsePrefixExpression_lowest(p) ==
    LET expression(r) ==
            [n |-> [node |-> "PrefixExpression", Token |-> p.currToken,
                    Operator |-> p.currToken.Literal, Right |-> r.n],
             p |-> r.p]
    IN  expression(parseExpression(nextToken(p), LOWEST))

parsePrefixExpression(p) ==
    LET expression(r) ==
            [n |-> [node |-> "PrefixExpression", Token |-> p.currToken,
                    Operator |-> p.currToken.Literal, Right |-> r.n],
             p |-> r.p]
    IN  expression(parseExpression(nextToken(p), PREFIX))

parseInfixExpression(p, left) ==
    LET expression(r) ==
            [n |-> [node |-> "InfixExpression", Token |-> p.currToken,
                    Operator |-> p.currToken.Literal, Left |-> left,
                    Right |-> r.n],
             p |-> r.p]
    IN  expression(parseExpression(nextToken(p), currPrecedence(p)))

parseGroupedExpression(p) ==
    LET closed(r, e) ==
            IF ~e.ok THEN [n |-> NilExpr, p |-> e.p]
            ELSE [n |-> r.n, p |-> e.p]
        inner(r) == closed(r, expectPeek(r.p, "RPAREN"))
    IN  inner(parseExpression(nextToken(p), LOWEST))

parseBlockStatementLoop(p, tok, stmts) ==
    IF p.panicked \/ curTokenIs(p, "RBRACE") \/ curTokenIs(p, "EOF")
    THEN [n |-> [node |-> "BlockStatement", Token |-> tok,
                 Statements |-> stmts],
          p |-> p]
    ELSE LET after(r) ==
                 parseBlockStatementLoop(
                     iterated("parseBlockStatement", p, nextToken(r.p)), tok,
                     IF IsNil(r.n) THEN stmts ELSE Append(stmts, r.n))
         IN  after(parseStatement(p))

parseBlockStatement(p) ==
    parseBlockStatementLoop(nextToken(p), p.currToken, <<>>)

parseIfExpression(p) ==
    LET expression(c, cons, alt) ==
            [node |-> "IfExpression", Token |-> p.currToken,
             Condition |-> c.n, Consequence |-> cons.n, Alternative |-> alt]
        alternative(c, cons, alt) ==
            [n |-> expression(c, cons, alt.n), p |-> alt.p]
        elseBrace(c, cons, e4) ==
            IF ~e4.ok THEN [n |-> NilExpr, p |-> e4.p]
            ELSE alternative(c, cons, parseBlockStatement(e4.p))
        consequence(c, cons) ==
            IF ~peekTokenIs(cons.p, "ELSE")
            THEN [n |-> expression(c, cons, NilExpr), p |-> cons.p]
            ELSE elseBrace(c, cons, expectPeek(nextToken(cons.p), "LBRACE"))
        brace(c, e3) ==
            IF ~e3.ok THEN [n |-> NilExpr, p |-> e3.p]
            ELSE consequence(c, parseBlockStatement(e3.p))
        rparen(c, e2) ==
            IF ~e2.ok THEN [n |-> NilExpr, p |-> e2.p]
            ELSE brace(c, expectPeek(e2.p, "LBRACE"))
        condition(c) == rparen(c, expectPeek(c.p, "RPAREN"))
        lparen(e1) ==
            IF ~e1.ok THEN [n |-> NilExpr, p |-> e1.p]
            ELSE condition(parseExpression(nextToken(e1.p), LOWEST))
    IN  lparen(expectPeek(p, "LPAREN"))

RECURSIVE parseFunctionParametersLoop(_, _)
parseFunctionParametersLoop(p, idents) ==
    IF peekTokenIs(p, "COMMA")
    THEN LET ident(q) ==
                 parseFunctionParametersLoop(
                     iterated("parseFunctionParameters", p, q),
                     Append(idents, [node |-> "Identifier",
                                     Token |-> q.currToken,
                                     Value |-> q.currToken.Literal]))
         IN  ident(nextToken(nextToken(p)))
    ELSE LET rparen(e) ==
                 IF ~e.ok THEN [n |-> <<>>, isNil |-> TRUE, p |-> e.p]
                 ELSE [n |-> idents, isNil |-> FALSE, p |-> e.p]
         IN  rparen(expectPeek(p, "RPAREN"))

parseFunctionParameters(p) ==
    IF peekTokenIs(p, "RPAREN")
    THEN [n |-> <<>>, isNil |-> FALSE, p |-> nextToken(p)]
    ELSE LET ident(q) ==
                 parseFunctionParametersLoop(
                     q, <<[node |-> "Identifier", Token |-> q.currToken,
                           Value |-> q.currToken.Literal]>>)
         IN  ident(nextToken(p))

parseFunctionLiteral(p) ==
    LET literal(params, body) ==
            [n |-> [node |-> "FunctionLiteral", Token |-> p.currToken,
                    Parameters |-> params.n,
                    ParametersNil |-> params.isNil, Body |-> body.n],
             p |-> body.p]
        brace(params, e2) ==
            IF ~e2.ok THEN [n |-> NilExpr, p |-> e2.p]
            ELSE literal(params, parseBlockStatement(e2.p))
        parameters(params) == brace(params, expectPeek(params.p, "LBRACE"))
        lparen(e1) ==
            IF ~e1.ok THEN [n |-> NilExpr, p |-> e1.p]
            ELSE parameters(parseFunctionParameters(e1.p))
    IN  lparen(expectPeek(p, "LPAREN"))

parseExpressionListLoop(p, endToken, elements) ==
    IF ~p.panicked /\ peekTokenIs(p, "COMMA")
    THEN LET element(r) ==
                 parseExpressionListLoop(
                     iterated("parseExpressionList", p, r.p), endToken,
                     Append(elements, r.n))
         IN  element(parseExpression(nextToken(nextToken(p)), LOWEST))
    ELSE LET closed(e) ==
                 IF ~e.ok THEN [n |-> <<>>, isNil |-> TRUE, p |-> e.p]
                 ELSE [n |-> elements, isNil |-> FALSE, p |-> e.p]
         IN  closed(expectPeek(p, endToken))

parseExpressionList(p, endToken) ==
    IF peekTokenIs(p, endToken)
    THEN [n |-> <<>>, isNil |-> FALSE, p |-> nextToken(p)]
    ELSE LET element(r) == parseExpressionListLoop(r.p, endToken, <<r.n>>)
         IN  element(parseExpression(nextToken(p), LOWEST))

parseCallExpression(p, fn) ==
    LET call(args) ==
            [n |-> [node |-> "CallExpression", Token |-> p.currToken,
                    Function |-> fn, Arguments |-> args.n,
                    ArgumentsNil |-> args.isNil],
             p |-> args.p]
    IN  call(parseExpressionList(p, "RPAREN"))

parseArrayLiteral(p) ==
    LET array(elems) ==
            [n |-> [node |-> "ArrayLiteral", Token |-> p.currToken,
                    Elements |-> elems.n, ElementsNil |-> elems.isNil],
             p |-> elems.p]
    IN  array(parseExpressionList(p, "RBRACKET"))

parseIndexExpression(p, left) ==
    LET closed(r, e) ==
            IF ~e.ok THEN [n |-> NilExpr, p |-> e.p]
            ELSE [n |-> [node |-> "IndexExpression", Token |-> p.currToken,
                         Left |-> left, Index |-> r.n],
                  p |-> e.p]
        index(r) == closed(r, expectPeek(r.p, "RBRACKET"))
    IN  index(parseExpression(nextToken(p), LOWEST))

\* left.(*ast.Identifier) panics when left is not an *ast.Identifier (the
\* nil interface included).  The node's Token is read after nextToken.
parseAssignExpression(p, left) ==
    IF left.node # "Identifier"
    THEN [n |-> NilExpr, p |-> [p EXCEPT !.panicked = TRUE]]
    ELSE LET assignment(q, r) ==
                 [n |-> [node |-> "AssignmentExpression",
                         Token |-> q.currToken,
                         Name |-> left, ValueExpr |-> r.n],
                  p |-> r.p]
             advanced(q) == assignment(q, parseExpression(q, LOWEST))
         IN  advanced(nextToken(p))

\* hash.Pairs[hashKey] = hashVal on a map keyed by the key node's address:
\* two keys are the same map key only when both are the nil interface.
PutPair(pairs, k, v) ==
    IF IsNil(k) /\ \E i \in 1..Len(pairs) : IsNil(pairs[i].Key)
    THEN [i \in 1..Len(pairs) |->
             IF IsNil(pairs[i].Key) THEN [Key |-> k, Val |-> v] ELSE pairs[i]]
    ELSE Append(pairs, [Key |-> k, Val |-> v])

parseHashLiteralLoop(p, tok, pairs) ==
    LET closed(e) ==
            IF ~e.ok THEN [n |-> NilExpr, p |-> e.p]
            ELSE [n |-> [node |-> "HashLiteral", Token |-> tok,
                         Pairs |-> pairs],
                  p |-> e.p]
        comma(pairs2, e2) ==
            IF ~e2.ok THEN [n |-> NilExpr, p |-> e2.p]
            ELSE parseHashLiteralLoop(
                     iterated("parseHashLiteral", p, e2.p), tok, pairs2)
        pair(v, pairs2) ==
            IF peekTokenIs(v.p, "RBRACE")
            THEN parseHashLiteralLoop(
                     iterated("parseHashLiteral", p, v.p), tok, pairs2)
            ELSE comma(pairs2, expectPeek(v.p, "COMMA"))
        value(k, v) == pair(v, PutPair(pairs, k.n, v.n))
        colon(k, e1) ==
            IF ~e1.ok THEN [n |-> NilExpr, p |-> e1.p]
            ELSE value(k, parseExpression(nextToken(e1.p), LOWEST))
        key(k) == colon(k, expectPeek(k.p, "COLON"))
    IN  IF p.panicked THEN [n |-> NilExpr, p |-> p]
        ELSE IF peekTokenIs(p, "RBRACE")
        THEN closed(expectPeek(p, "RBRACE"))
        ELSE key(parseExpression(nextToken(p), LOWEST))

parseHashLiteral(p) == parseHashLiteralLoop(p, p.currToken, <<>>)

\* prefix := p.prefixParseFns[p.currToken.Type]; prefix()
prefixParse(p) ==
    CASE p.currToken.Type = "IDENT" -> parseIdentifier(p)
      [] p.currToken.Type = "INT" -> parseIntegerLiteral(p)
      [] p.currToken.Type \in {"BANG", "MINUS"} -> parsePrefixExpression(p)
      [] p.currToken.Type \in {"TRUE", "FALSE"} -> parseBoolean(p)
      [] p.currToken.Type = "LPAREN" -> parseGroupedExpression(p)
      [] p.currToken.Type = "IF" -> parseIfExpression(p)
      [] p.currToken.Type = "FUNCTION" -> parseFunctionLiteral(p)
      [] p.currToken.Type = "STRING" -> parseStringLiteral(p)
      [] p.currToken.Type = "LBRACKET" -> parseArrayLiteral(p)
      [] p.currToken.Type = "LBRACE" -> parseHashLiteral(p)

\* infix := p.infixParseFns[p.currToken.Type]; infix(left)
infixParse(p, left) ==
    CASE p.currToken.Type = "ASSIGN" -> parseAssignExpression(p, left)
      [] p.currToken.Type = "LPAREN" -> parseCallExpression(p, left)
      [] p.currToken.Type = "LBRACKET" -> parseIndexExpression(p, left)
      [] OTHER -> parseInfixExpression(p, left)

\* the loop guard of parseExpression
continuesInfix_ge(p, precedence) ==
    ~peekTokenIs(p, "SEMICOLON") /\ peekPrecedence(p) >= precedence

continuesInfix(p, precedence) ==
    ~peekTokenIs(p, "SEMICOLON") /\ peekPrecedence(p) > precedence

parseExpressionLoop(p, leftExp, precedence) ==
    IF ~p.panicked /\ continuesInfix(p, precedence)
    THEN IF p.peekToken.Type \notin infixParseFns
         THEN [n |-> leftExp, p |-> p]
         ELSE LET infix(r) ==
                      parseExpressionLoop(
                          iterated("parseExpression", p, r.p), r.n,
                          precedence)
              IN  infix(infixParse(nextToken(p), leftExp))
    ELSE [n |-> leftExp, p |-> p]

parseExpression(p, precedence) ==
    IF p.currToken.Type \notin prefixParseFns
    THEN [n |-> NilExpr, p |-> noPrefixParseFnError(p, p.currToken)]
    ELSE LET prefix(l) == parseExpressionLoop(l.p, l.n, precedence)
         IN  prefix(prefixParse(p))

\* if p.peekTokenIs(token.SEMICOLON) { p.nextToken() }
skipSemicolon(p) == IF peekTokenIs(p, "SEMICOLON") THEN nextToken(p) ELSE p

parseLetStatement(p) ==
    LET statement(e1, v) ==
            [n |-> [node |-> "LetStatement", Token |-> p.currToken,
                    Name |-> [node |-> "Identifier",
                              Token |-> e1.p.currToken,
                              Value |-> e1.p.currToken.Literal],
                    ValueExpr |-> v.n],
             p |-> skipSemicolon(v.p)]
        assign(e1, e2) ==
            IF ~e2.ok THEN [n |-> NilLetStatement, p |-> e2.p]
            ELSE statement(e1, parseExpression(nextToken(e2.p), LOWEST))
        ident(e1) ==
            IF ~e1.ok THEN [n |-> NilLetStatement, p |-> e1.p]
            ELSE assign(e1, expectPeek(e1.p, "ASSIGN"))
    IN  ident(expectPeek(p, "IDENT"))

parseReturnStatement(p) ==
    LET statement(v) ==
            [n |-> [node |-> "ReturnStatement", Token |-> p.currToken,
                    ReturnValue |-> v.n],
             p |-> skipSemicolon(v.p)]
    IN  statement(parseExpression(nextToken(p), LOWEST))

parseExpressionStatement(p) ==
    LET statement(v) ==
            [n |-> [node |-> "ExpressionStatement", Token |-> p.currToken,
                    Expression |-> v.n],
             p |-> skipSemicolon(v.p)]
    IN  statement(parseExpression(p, LOWEST))

parseStatement(p) ==
    CASE p.currToken.Type = "LET" -> parseLetStatement(p)
      [] p.currToken.Type = "RETURN" -> parseReturnStatement(p)
      [] OTHER -> parseExpressionStatement(p)

RECURSIVE ParseProgramLoop(_, _)
ParseProgramLoop(p, stmts) ==
    IF p.panicked \/ curTokenIs(p, "EOF")
    THEN [n |-> [node |-> "Program", Statements |-> stmts], p |-> p]
    ELSE LET after(r) ==
                 ParseProgramLoop(iterated("ParseProgram", p,
                                           nextToken(r.p)),
                                  IF IsNil(r.n) THEN stmts
                                  ELSE Append(stmts, r.n))
         IN  after(parseStatement(p))

ParseProgram(p) == ParseProgramLoop(p, <<>>)

(***************************************************************************)
(* The lexer's classification of the words of a source text (the source    *)
(* is given already split into words): punctuation by the token table,     *)
(* letters through LookupIdent, digit runs as INT, quoted text as STRING   *)
(* carrying the interior bytes.                                            *)
(***************************************************************************)
punctuation ==
    ("=" :> "ASSIGN") @@ ("+" :> "PLUS") @@ ("-" :> "MINUS") @@
    ("!" :> "BANG") @@ ("*" :> "ASTERISK") @@ ("/" :> "SLASH") @@
    ("<" :> "LT") @@ (">" :> "GT") @@ ("==" :> "EQ") @@ ("!=" :> "NOT_EQ") @@
    (":" :> "COLON") @@ ("," :> "COMMA") @@ (";" :> "SEMICOLON") @@
    ("(" :> "LPAREN") @@ (")" :> "RPAREN") @@ ("{" :> "LBRACE") @@
    ("}" :> "RBRACE") @@ ("[" :> "LBRACKET") @@ ("]" :> "RBRACKET")

quoted ==
    ("\"\"" :> "") @@ ("\"a\"" :> "a") @@ ("\"b\"" :> "b") @@
    ("\"pmgnilgbcncmfjeo\"" :> "pmgnilgbcncmfjeo") @@
    ("\"ddcmokalncjafdld\"" :> "ddcmokalncjafdld")

LexWord(w) ==
    CASE w \in DOMAIN punctuation -> Tok(punctuation[w], w)
      [] w \in DOMAIN Digits -> Tok("INT", w)
      [] w \in DOMAIN quoted -> Tok("STRING", quoted[w])
      [] OTHER -> Tok(LookupIdent(w), w)

Lex(words) == [i \in 1..Len(words) |-> LexWord(words[i])]

(***************************************************************************)
(* Objects (package object).  An object is a record tagged by `kind`, the  *)
(* ObjectType.  `addr` is the address of the allocation: the evaluator     *)
(* compares objects by pointer.  NilObj is the nil object.Object interface *)
(* value; Panic stands for a Go run-time panic unwinding the evaluation.   *)
(***************************************************************************)
NULL == [kind |-> "NULL", addr |-> -1]
TRUE_OBJ == [kind |-> "BOOLEAN", BoolValue |-> TRUE, addr |-> -2]
FALSE_OBJ == [kind |-> "BOOLEAN", BoolValue |-> FALSE, addr |-> -3]
NilObj == [kind |-> "nil"]
Panic == [kind |-> "panic"]

Integer(i) == [kind |-> "INTEGER", IntValue |-> i]
String(bytes) == [kind |-> "STRING", StrValue |-> bytes]
Error(msg) == [kind |-> "ERROR", Message |-> msg]

\* obj.Type(); calling it on the nil interface panics, which callers test
\* with IsNilObj before using Type.
Type(obj) == obj.kind
IsNilObj(obj) == obj.kind = "nil"
IsPanic(obj) == obj.kind = "panic"

\* the bytes of "pmgnilgbcncmfjeo" and of "ddcmokalncjafdld"
LongStringA ==
    <<112, 109, 103, 110, 105, 108, 103, 98, 99, 110, 99, 109, 102, 106, 101,
      111>>

LongStringB ==
    <<100, 100, 99, 109, 111, 107, 97, 108, 110, 99, 106, 97, 102, 100, 108,
      100>>

\* the bytes of the string literals the inputs use
Bytes ==
    ("" :> <<>>) @@ ("a" :> <<97>>) @@ ("b" :> <<98>>) @@
    ("pmgnilgbcncmfjeo" :> LongStringA) @@ ("ddcmokalncjafdld" :> LongStringB)

(***************************************************************************)
(* 64-bit unsigned integers as four 16-bit limbs, least significant first. *)
(***************************************************************************)
Limb == 65536

\* uint64(v) for a signed v: two's complement
Uint64(v) ==
    IF v >= 0
    THEN <<v % Limb, (v \div Limb) % Limb, 0, 0>>
    ELSE LET n == (-v) - 1
         IN  <<(Limb - 1) - (n % Limb), (Limb - 1) - ((n \div Limb) % Limb),
               Limb - 1, Limb - 1>>

\* a ^ b on two limbs, bit by bit
XorBits(a, b) ==
    LET x(i) == ((((a \div 2^i) % 2) + ((b \div 2^i) % 2)) % 2) * 2^i
    IN  ((x(0) + x(1) + x(2) + x(3)) + (x(4) + x(5) + x(6) + x(7)))
        + ((x(8) + x(9) + x(10) + x(11)) + (x(12) + x(13) + x(14) + x(15)))

\* h ^ uint64(byte)
Xor64(h, byte) == [h EXCEPT ![1] = XorBits(h[1], byte)]

\* h * prime64 mod 2^64, prime64 = 0x00000100000001B3
Mul64Prime(h) ==
    LET p0 == 435      \* 0x01B3
        p2 == 256      \* 0x0100
        r1 == h[1] * p0
        r2 == h[2] * p0 + (r1 \div Limb)
        r3 == h[3] * p0 + h[1] * p2 + (r2 \div Limb)
        r4 == h[4] * p0 + h[2] * p2 + (r3 \div Limb)
    IN  <<r1 % Limb, r2 % Limb, r3 % Limb, r4 % Limb>>

\* offset64 = 0xcbf29ce484222325
offset64 == <<8997, 33826, 40164, 52210>>

\* hash/fnv New64 (FNV-1): for each byte, multiply, then xor.  w holds the
\* hash so far (h) and the bytes still to write.
RECURSIVE fnvWrite(_)
fnvWrite(w) ==
    IF w.bytes = <<>> THEN w.h
    ELSE fnvWrite([h |-> Xor64(Mul64Prime(w.h), Head(w.bytes)),
                   bytes |-> Tail(w.bytes)])

Sum64(bytes) == fnvWrite([h |-> offset64, bytes |-> bytes])

Hashable(obj) == obj.kind \in {"INTEGER", "BOOLEAN", "STRING"}

IntegerHashKey(i) == [Type |-> "INTEGER", Value |-> Uint64(i.IntValue)]

BooleanHashKey(b) ==
    [Type |-> "BOOLEAN", Value |-> IF b.BoolValue THEN Uint64(1) ELSE Uint64(0)]

StringHashKey(str) == [Type |-> "STRING", Value |-> Sum64(str.StrValue)]

HashKey(obj) ==
    CASE obj.kind = "INTEGER" -> IntegerHashKey(obj)
      [] obj.kind = "BOOLEAN" -> BooleanHashKey(obj)
      [] obj.kind = "STRING" -> StringHashKey(obj)

(***************************************************************************)
(* object.Environment.  The environments live in a heap, a sequence; an    *)
(* *Environment is an index in it and 0 is the nil pointer.                *)
(***************************************************************************)
EmptyStore == [k \in {} |-> NilObj]

NewEnvironment(h) == Append(h, [store |-> EmptyStore, outer |-> 0])

NewEnclosedEnvironment(h, outerEnv) ==
    Append(h, [store |-> EmptyStore, outer |-> outerEnv])

RECURSIVE Get(_, _, _)
Get(h, e, key) ==
    IF key \in DOMAIN h[e].store
    THEN [obj |-> h[e].store[key], ok |-> TRUE]
    ELSE IF h[e].outer # 0
         THEN Get(h, h[e].outer, key)
         ELSE [obj |-> NilObj, ok |-> FALSE]

Set(h, e, key, val) == [h EXCEPT ![e].store = (key :> val) @@ @]

IsKey(h, e, key) ==
    \/ key \in DOMAIN h[e].store
    \/ h[e].outer # 0 /\ Get(h, h[e].outer, key).ok

(***************************************************************************)
(* The evaluator.  An evaluation state s holds the heap of environments,   *)
(* the number of objects allocated so far, the order in which Go will      *)
(* iterate its maps (choices: one number per iteration step, consumed in   *)
(* order) and the log of events.                                           *)
(*                                                                         *)
(* Note on events.  The log does not exist in the program; it records, in  *)
(* order, what an evaluation did, so that properties about the course of   *)
(* an evaluation can be stated on its final state:                         *)
(*   "eval"    Eval was entered for the node (node type, token position)   *)
(*   "error"   the first Error object of the evaluation was produced       *)
(*   "return"  a ReturnStatement wrapped val in a ReturnValue              *)
(*   "fnlit"   a FunctionLiteral produced the Function addr in env         *)
(*   "call"    applyFunction entered the body of Function addr in the new  *)
(*             environment env, whose outer environment is `outer`         *)
(*   "callret" applyFunction returned val from a Function whose body ran   *)
(*             in env, the heap being `before` when the body started and   *)
(*             `after` when it had finished                                *)
(*   "extend"  extendedFunctionEnv was given args for the parameters named *)
(*             params and made the environment env, whose store was        *)
(*             `store` when it returned or panicked                        *)
(*   "ident"   evalIdentifier resolved name in env to val, the heap being  *)
(*             heapAt                                                      *)
(*   "let"     a LetStatement bound name to val in env                     *)
(*   "assign"  an AssignmentExpression stored val under name from env,     *)
(*             taking the heap from `before` to `after`                    *)
(*   "notbound" a `let` or an assignment of `name` in env, its value      *)
(*             expression having given `value`, returned the Error val,    *)
(*             the heap being `before` at the binding step and `after` on  *)
(*             return                                                      *)
(*   "if"      an if-expression whose condition evaluated to cond took the *)
(*             consequence, the alternative or, having none, NULL          *)
(*   "prefix"  a prefix operator applied to right gave val                 *)
(*   "infix"   an infix operator applied to left and right gave val        *)
(*   "index"   left[index] gave val                                        *)
(*   "builtin" the built-in `name` was applied to args                     *)
(*   "builtinret" the built-in `name`, applied to args, returned val       *)
(*   "puts"    puts printed val                                            *)
(* An evaluation operator returns the object (v) and the state after (s).  *)
(***************************************************************************)
Ret(v, s) == [v |-> v, s |-> s]

Log(s, e) == [s EXCEPT !.events = Append(@, e)]

newError(msg) == Error(msg)

\* obj != nil && obj.Type() == ERROR_OBJ
isError(obj) == ~IsNilObj(obj) /\ Type(obj) = "ERROR"

\* an evaluation stops here: the code returns the Error, or a panic unwinds
Stops(obj) == IsPanic(obj) \/ isError(obj)

\* left == right on two object.Object interface values.  Integers, strings
\* and errors carry no address in the model: the evaluator never compares
\* two of them by pointer.
SamePointer(a, b) ==
    IF IsNilObj(a) \/ IsNilObj(b) THEN IsNilObj(a) /\ IsNilObj(b)
    ELSE IF a.kind # b.kind \/ a.kind \in {"INTEGER", "STRING", "ERROR"}
         THEN FALSE
         ELSE a.addr = b.addr

\* (a new object.Boolean at every conversion)
nativeBoolToBooleanObject_fresh(b) ==
    [kind |-> "BOOLEAN", BoolValue |-> b, addr |-> IF b THEN -20 ELSE -30]

nativeBoolToBooleanObject(b) ==
    IF b THEN TRUE_OBJ ELSE FALSE_OBJ

\* (`!` taking the integer zero for falsy as well)
evalBangOperatorExpression_zeroFalsy(right) ==
    CASE SamePointer(right, TRUE_OBJ) -> FALSE_OBJ
      [] SamePointer(right, FALSE_OBJ) -> TRUE_OBJ
      [] SamePointer(right, NULL) -> TRUE_OBJ
      [] right = Integer(0) -> TRUE_OBJ
      [] OTHER -> FALSE_OBJ

evalBangOperatorExpression(right) ==
    CASE SamePointer(right, TRUE_OBJ) -> FALSE_OBJ
      [] SamePointer(right, FALSE_OBJ) -> TRUE_OBJ
      [] SamePointer(right, NULL) -> TRUE_OBJ
      [] OTHER -> FALSE_OBJ

evalMinusPrefixOperator(right) ==
    IF IsNilObj(right) THEN Panic
    ELSE IF Type(right) # "INTEGER"
         THEN newError("unknown operator: -" \o Type(right))
         ELSE Integer(-right.IntValue)

evalPrefixExpression(operator, right) ==
    CASE operator = "!" -> evalBangOperatorExpression(right)
      [] operator = "-" -> evalMinusPrefixOperator(right)
      [] OTHER -> IF IsNilObj(right) THEN Panic
                  ELSE newError("unknown operator: " \o operator
                                 \o Type(right))

\* Go's integer division truncates toward zero
TruncDiv(a, b) ==
    LET abs(x) == IF x < 0 THEN -x ELSE x
    IN  IF (a < 0) = (b < 0) THEN abs(a) \div abs(b)
        ELSE -(abs(a) \div abs(b))

\* (the inputs keep every intermediate value far inside int64: no
\* wrap-around is modelled; dividing by zero panics)
evalIntegerInfixExpression(operator, left, right) ==
    LET leftVal == left.IntValue
        rightVal == right.IntValue
    IN  CASE operator = "+" -> Integer(leftVal + rightVal)
          [] operator = "-" -> Integer(leftVal - rightVal)
          [] operator = "*" -> Integer(leftVal * rightVal)
          [] operator = "/" -> IF rightVal = 0 THEN Panic
                               ELSE Integer(TruncDiv(leftVal, rightVal))
          [] operator = ">" -> nativeBoolToBooleanObject(leftVal > rightVal)
          [] operator = "<" -> nativeBoolToBooleanObject(leftVal < rightVal)
          [] operator = "==" -> nativeBoolToBooleanObject(leftVal = rightVal)
          [] operator = "!=" -> nativeBoolToBooleanObject(leftVal # rightVal)
          [] OTHER -> newError("unknown operator: " \o Type(left) \o " "
                                \o operator \o " " \o Type(right))

evalStringInfixExpression(operator, left, right) ==
    IF operator # "+"
    THEN Error("unknown operator: " \o Type(left) \o " " \o operator \o " "
                \o Type(right))
    ELSE String(left.StrValue \o right.StrValue)

\* (the kinds compared before `==` and `!=` are tried)
evalInfixExpression_mismatchFirst(operator, left, right) ==
    IF IsNilObj(left) THEN Panic
    ELSE IF Type(left) \in {"INTEGER", "STRING"} /\ IsNilObj(right) THEN Panic
    ELSE IF Type(left) = "INTEGER" /\ Type(right) = "INTEGER"
         THEN evalIntegerInfixExpression(operator, left, right)
    ELSE IF Type(left) = "STRING" /\ Type(right) = "STRING"
         THEN evalStringInfixExpression(operator, left, right)
    ELSE IF IsNilObj(right) THEN Panic
    ELSE IF Type(left) # Type(right)
         THEN newError("type mismatch: " \o Type(left) \o " " \o operator
                        \o " " \o Type(right))
    ELSE IF operator = "=="
         THEN nativeBoolToBooleanObject(SamePointer(left, right))
    ELSE IF operator = "!="
         THEN nativeBoolToBooleanObject(~SamePointer(left, right))
    ELSE newError("unknown operator: " \o Type(left) \o " " \o operator
                   \o " " \o Type(right))

evalInfixExpression(operator, left, right) ==
    IF IsNilObj(left) THEN Panic
    ELSE IF Type(left) \in {"INTEGER", "STRING"} /\ IsNilObj(right) THEN Panic
    ELSE IF Type(left) = "INTEGER" /\ Type(right) = "INTEGER"
         THEN evalIntegerInfixExpression(operator, left, right)
    ELSE IF Type(left) = "STRING" /\ Type(right) = "STRING"
         THEN evalStringInfixExpression(operator, left, right)
    ELSE IF operator = "=="
         THEN nativeBoolToBooleanObject(SamePointer(left, right))
    ELSE IF operator = "!="
         THEN nativeBoolToBooleanObject(~SamePointer(left, right))
    ELSE IF IsNilObj(right) THEN Panic
    ELSE IF Type(left) # Type(right)
         THEN newError("type mismatch: " \o Type(left) \o " " \o operator
                        \o " " \o Type(right))
    ELSE newError("unknown operator: " \o Type(left) \o " " \o operator
                   \o " " \o Type(right))

isTruthy(obj) ==
    CASE SamePointer(obj, NULL) -> FALSE
      [] SamePointer(obj, TRUE_OBJ) -> TRUE
      [] SamePointer(obj, FALSE_OBJ) -> FALSE
      [] OTHER -> TRUE

unwrapReturnValue(obj) ==
    IF obj.kind = "RETURN_VALUE" THEN obj.Inner ELSE obj

\* (the range check admitting the index len(arr), answered with the last
\* element)
evalArrayIndexExpression_pastEnd(left, index) ==
    LET arr == left.Elements
        idx == index.IntValue
        max == Len(arr) - 1
    IN  IF idx < 0 \/ idx > max + 1 \/ arr = <<>> THEN NULL
        ELSE IF idx = max + 1 THEN arr[idx] ELSE arr[idx + 1]

\* (int is 64 bits wide, as on amd64 and arm64: int(idx) is idx)
evalArrayIndexExpression(left, index) ==
    LET arr == left.Elements
        idx == index.IntValue
        max == Len(arr) - 1
    IN  IF idx < 0 \/ idx > max THEN NULL ELSE arr[idx + 1]

evalHashIndexExpression(left, index) ==
    IF IsNilObj(index) THEN Panic
    ELSE IF ~Hashable(index)
         THEN newError("unusable as hash key: " \o Type(index))
         ELSE IF HashKey(index) \notin DOMAIN left.Pairs THEN NULL
              ELSE left.Pairs[HashKey(index)].Val

evalIndexExpression(left, index) ==
    IF IsNilObj(left) THEN Panic
    ELSE IF Type(left) = "ARRAY" /\ IsNilObj(index) THEN Panic
    ELSE IF Type(left) = "ARRAY" /\ Type(index) = "INTEGER"
         THEN evalArrayIndexExpression(left, index)
    ELSE IF Type(left) = "HASH" THEN evalHashIndexExpression(left, index)
    ELSE newError("index operator not supported: " \o Type(left))

Alloc(s) == [s EXCEPT !.nalloc = @ + 1]

\* &object.Array{Elements: elements}
NewArray(elements, s) ==
    Ret([kind |-> "ARRAY", Elements |-> elements, addr |-> s.nalloc + 1],
        Alloc(s))

(***************************************************************************)
(* The built-in functions.  (Go quotes the built-in's name with backquotes *)
(* in the messages, written ' here.)                                       *)
(***************************************************************************)
BuiltinNames == {"len", "first", "last", "rest", "push", "puts"}

builtins ==
    ("len" :> [kind |-> "BUILTIN", name |-> "len", addr |-> -11]) @@
    ("first" :> [kind |-> "BUILTIN", name |-> "first", addr |-> -12]) @@
    ("last" :> [kind |-> "BUILTIN", name |-> "last", addr |-> -13]) @@
    ("rest" :> [kind |-> "BUILTIN", name |-> "rest", addr |-> -14]) @@
    ("push" :> [kind |-> "BUILTIN", name |-> "push", addr |-> -15]) @@
    ("puts" :> [kind |-> "BUILTIN", name |-> "puts", addr |-> -16])

wrongNumberOfArguments(got, want) ==
    newError("wrong number of arguments. got=" \o ToString(got) \o ", want="
              \o ToString(want))

builtin_len(args, s) ==
    IF Len(args) # 1 THEN Ret(wrongNumberOfArguments(Len(args), 1), s)
    ELSE CASE args[1].kind = "ARRAY" ->
                  Ret(Integer(Len(args[1].Elements)), s)
           [] args[1].kind = "STRING" ->
                  Ret(Integer(Len(args[1].StrValue)), s)
           [] IsNilObj(args[1]) -> Ret(Panic, s)
           [] OTHER ->
                  Ret(newError("argument to 'len' not supported, got="
                                \o Type(args[1])), s)

builtin_first(args, s) ==
    IF Len(args) # 1 THEN Ret(wrongNumberOfArguments(Len(args), 1), s)
    ELSE IF IsNilObj(args[1]) THEN Ret(Panic, s)
    ELSE IF Type(args[1]) # "ARRAY"
         THEN Ret(newError("argument to 'first' must be an ARRAY, got="
                            \o Type(args[1])), s)
    ELSE IF Len(args[1].Elements) > 0 THEN Ret(args[1].Elements[1], s)
    ELSE Ret(NULL, s)

builtin_last(args, s) ==
    IF Len(args) # 1 THEN Ret(wrongNumberOfArguments(Len(args), 1), s)
    ELSE IF IsNilObj(args[1]) THEN Ret(Panic, s)
    ELSE IF Type(args[1]) # "ARRAY"
         THEN Ret(newError("argument to 'last' must be an ARRAY, got="
                            \o Type(args[1])), s)
    ELSE LET length == Len(args[1].Elements)
         IN  IF length > 0 THEN Ret(args[1].Elements[length], s)
             ELSE Ret(NULL, s)

builtin_rest(args, s) ==
    IF Len(args) # 1 THEN Ret(wrongNumberOfArguments(Len(args), 1), s)
    ELSE IF IsNilObj(args[1]) THEN Ret(Panic, s)
    ELSE IF Type(args[1]) # "ARRAY"
         THEN Ret(newError("argument to 'rest' must be an ARRAY, got="
                            \o Type(args[1])), s)
    ELSE IF Len(args[1].Elements) > 0
         THEN NewArray(Tail(args[1].Elements), s)
         ELSE Ret(NULL, s)

\* (push appending in place: the argument's own array, grown)
builtin_push_inPlace(args, s) ==
    IF Len(args) # 2 THEN Ret(newError("argument to push should be 2"), s)
    ELSE IF IsNilObj(args[1]) THEN Ret(Panic, s)
    ELSE IF Type(args[1]) # "ARRAY"
         THEN Ret(newError("first argument to 'push' must be an ARRAY, got="
                            \o Type(args[1])), s)
    ELSE Ret([args[1] EXCEPT !.Elements = Append(@, args[2])], s)

builtin_push(args, s) ==
    IF Len(args) # 2 THEN Ret(newError("argument to push should be 2"), s)
    ELSE IF IsNilObj(args[1]) THEN Ret(Panic, s)
    ELSE IF Type(args[1]) # "ARRAY"
         THEN Ret(newError("first argument to 'push' must be an ARRAY, got="
                            \o Type(args[1])), s)
    ELSE NewArray(Append(args[1].Elements, args[2]), s)

\* obj.Inspect() dereferences a nil interface
RECURSIVE InspectPanics(_)
InspectPanics(obj) ==
    CASE IsNilObj(obj) -> TRUE
      [] obj.kind = "RETURN_VALUE" -> InspectPanics(obj.Inner)
      [] obj.kind = "ARRAY" ->
             \E i \in 1..Len(obj.Elements) : InspectPanics(obj.Elements[i])
      [] obj.kind = "HASH" ->
             \E k \in DOMAIN obj.Pairs :
                 InspectPanics(obj.Pairs[k].Key)
                 \/ InspectPanics(obj.Pairs[k].Val)
      [] OTHER -> FALSE

RECURSIVE builtin_puts_loop(_, _, _)
builtin_puts_loop(args, i, s) ==
    IF i > Len(args) THEN Ret(NULL, s)
    ELSE IF InspectPanics(args[i]) THEN Ret(Panic, s)
    ELSE builtin_puts_loop(args, i + 1,
                           Log(s, [ev |-> "puts", val |-> args[i]]))

builtin_puts(args, s) == builtin_puts_loop(args, 1, s)

\* fn.Fn(args...)
applyBuiltin(fn, args, s) ==
    LET returned(r) ==
            IF IsPanic(r.v) THEN r
            ELSE Ret(r.v, Log(r.s, [ev |-> "builtinret", name |-> fn.name,
                                    args |-> args, val |-> r.v]))
        called(s1) ==
            CASE fn.name = "len" -> builtin_len(args, s1)
              [] fn.name = "first" -> builtin_first(args, s1)
              [] fn.name = "last" -> builtin_last(args, s1)
              [] fn.name = "rest" -> builtin_rest(args, s1)
              [] fn.name = "push" -> builtin_push(args, s1)
              [] fn.name = "puts" -> builtin_puts(args, s1)
    IN  returned(called(Log(s, [ev |-> "builtin", name |-> fn.name,
                                args |-> args])))

\* a `let` or an assignment returned the Error `yielded` without binding
NotBound(node, env, val, yielded, after) ==
    Ret(yielded,
        Log([val.s EXCEPT !.heap = after],
            [ev |-> "notbound", node |-> node.node, env |-> env,
             name |-> node.Name.Value, value |-> val.v, val |-> yielded,
             before |-> val.s.heap, after |-> after]))

\* case *ast.LetStatement of Eval, val being the result of Eval(node.Value)
evalLetStatement_bindFirst(node, env, val) ==
    IF IsPanic(val.v) THEN val
    ELSE IF isError(val.v)
         THEN NotBound(node, env, val, val.v,
                       Set(val.s.heap, env, node.Name.Value, val.v))
         ELSE Ret(NilObj,
                  Log([val.s EXCEPT
                          !.heap = Set(@, env, node.Name.Value, val.v)],
                      [ev |-> "let", env |-> env,
                       name |-> node.Name.Value, val |-> val.v]))

evalLetStatement(node, env, val) ==
    IF IsPanic(val.v) THEN val
    ELSE IF isError(val.v)
         THEN NotBound(node, env, val, val.v, val.s.heap)
         ELSE Ret(NilObj,
                  Log([val.s EXCEPT
                          !.heap = Set(@, env, node.Name.Value, val.v)],
                      [ev |-> "let", env |-> env,
                       name |-> node.Name.Value, val |-> val.v]))

\* case *ast.AssignmentExpression of Eval, val being the result of
\* Eval(node.Value)
\* (storing in the outer environment what the current one does not hold)
evalAssignmentExpression_outer(node, env, val) ==
    IF IsPanic(val.v) THEN val
    ELSE IF isError(val.v)
         THEN NotBound(node, env, val, val.v, val.s.heap)
         ELSE IF ~IsKey(val.s.heap, env, node.Name.Value)
              THEN NotBound(node, env, val,
                            newError("identifier not found '"
                                      \o node.Name.Value \o "'"),
                            val.s.heap)
              ELSE Ret(NilObj,
                       Log([val.s EXCEPT
                               !.heap =
                                   Set(@,
                                       IF node.Name.Value
                                              \in DOMAIN @[env].store
                                       THEN env ELSE @[env].outer,
                                       node.Name.Value, val.v)],
                           [ev |-> "assign", env |-> env,
                            name |-> node.Name.Value, val |-> val.v,
                            before |-> val.s.heap,
                            after |-> Set(val.s.heap, env, node.Name.Value,
                                          val.v)]))

evalAssignmentExpression(node, env, val) ==
    IF IsPanic(val.v) THEN val
    ELSE IF isError(val.v)
         THEN NotBound(node, env, val, val.v, val.s.heap)
         ELSE IF ~IsKey(val.s.heap, env, node.Name.Value)
              THEN NotBound(node, env, val,
                            newError("identifier not found '"
                                      \o node.Name.Value \o "'"),
                            val.s.heap)
              ELSE Ret(NilObj,
                       Log([val.s EXCEPT
                               !.heap = Set(@, env, node.Name.Value, val.v)],
                           [ev |-> "assign", env |-> env,
                            name |-> node.Name.Value, val |-> val.v,
                            before |-> val.s.heap,
                            after |-> Set(val.s.heap, env, node.Name.Value,
                                          val.v)]))

(***************************************************************************)
(* Eval and the functions that call it back.                               *)
(***************************************************************************)
RECURSIVE Eval(_, _, _)
RECURSIVE EvalNode(_, _, _)
RECURSIVE evalProgramLoop(_, _, _, _, _)
RECURSIVE evalStatementsLoop(_, _, _, _, _)
RECURSIVE evalExpressionsLoop(_, _, _, _, _)
RECURSIVE evalHashLiteralLoop(_, _, _, _, _)
RECURSIVE evalIfExpression(_, _, _)
RECURSIVE applyFunction(_, _, _)

evalProgramLoop(statements, i, res, env, s) ==
    IF i > Len(statements) THEN Ret(res, s)
    ELSE LET statement(r) ==
                 CASE IsPanic(r.v) -> r
                   [] r.v.kind = "RETURN_VALUE" -> Ret(r.v.Inner, r.s)
                   [] r.v.kind = "ERROR" -> r
                   [] OTHER ->
                          evalProgramLoop(statements, i + 1, r.v, env, r.s)
         IN  statement(Eval(statements[i], env, s))

evalProgram(statements, env, s) ==
    evalProgramLoop(statements, 1, NilObj, env, s)

\* the test that ends the loop of evalStatements early
endsBlock_errorOnly(res) ==
    ~IsNilObj(res) /\ Type(res) = "ERROR"

endsBlock(res) ==
    ~IsNilObj(res) /\ Type(res) \in {"RETURN_VALUE", "ERROR"}

evalStatementsLoop(statements, i, res, env, s) ==
    IF i > Len(statements) THEN Ret(res, s)
    ELSE LET statement(r) ==
                 IF IsPanic(r.v) THEN r
                 ELSE IF endsBlock(r.v) THEN r
                 ELSE evalStatementsLoop(statements, i + 1, r.v, env, r.s)
         IN  statement(Eval(statements[i], env, s))

evalStatements(statements, env, s) ==
    evalStatementsLoop(statements, 1, NilObj, env, s)

\* the objects evaluated (vs), the state after, and whether a panic unwound
evalExpressionsLoop(exps, i, args, env, s) ==
    IF i > Len(exps) THEN [vs |-> args, s |-> s, panicked |-> FALSE]
    ELSE LET argument(evaluated) ==
                 IF IsPanic(evaluated.v)
                 THEN [vs |-> args, s |-> evaluated.s, panicked |-> TRUE]
                 ELSE IF isError(evaluated.v)
                 THEN [vs |-> Append(args, evaluated.v), s |-> evaluated.s,
                       panicked |-> FALSE]
                 ELSE evalExpressionsLoop(exps, i + 1,
                                          Append(args, evaluated.v), env,
                                          evaluated.s)
         IN  argument(Eval(exps[i], env, s))

evalExpressions(exps, env, s) == evalExpressionsLoop(exps, 1, <<>>, env, s)

\* the guard the callers of evalExpressions use to detect an error
argumentsFailed(args) ==
    Len(args) = 1 /\ isError(args[1])

evalIfExpression(ie, env, s) ==
    LET taken(condition, which) ==
            Log(condition.s, [ev |-> "if", cond |-> condition.v,
                              taken |-> which])
        branch(condition) ==
            IF Stops(condition.v) THEN condition
            ELSE IF isTruthy(condition.v)
                 THEN Eval(ie.Consequence, env, taken(condition, "consequence"))
                 ELSE IF ~IsNil(ie.Alternative)
                      THEN Eval(ie.Alternative, env,
                                taken(condition, "alternative"))
                      ELSE Ret(NULL, taken(condition, "none"))
    IN  branch(Eval(ie.Condition, env, s))

\* (the built-ins table consulted before the environment)
evalIdentifier_builtinsFirst(node, env, s) ==
    LET resolved(obj) ==
            Ret(obj, Log(s, [ev |-> "ident", env |-> env,
                             name |-> node.Value, val |-> obj,
                             heapAt |-> s.heap]))
        looked(got) ==
            resolved(IF node.Value \in DOMAIN builtins
                     THEN builtins[node.Value]
                     ELSE IF got.ok THEN got.obj
                          ELSE newError("identifier not found: "
                                         \o node.Value))
    IN  looked(Get(s.heap, env, node.Value))

evalIdentifier(node, env, s) ==
    LET resolved(obj) ==
            Ret(obj, Log(s, [ev |-> "ident", env |-> env,
                             name |-> node.Value, val |-> obj,
                             heapAt |-> s.heap]))
        looked(got) ==
            resolved(IF got.ok THEN got.obj
                     ELSE IF node.Value \in DOMAIN builtins
                          THEN builtins[node.Value]
                          ELSE newError("identifier not found: "
                                         \o node.Value))
    IN  looked(Get(s.heap, env, node.Value))

\* for i, param := range fn.Parameters { env.Set(param.Value, args[i]) }
RECURSIVE bindParameters_missingNull(_, _, _, _, _)
bindParameters_missingNull(h, e, params, args, i) ==
    IF i > Len(params) THEN [heap |-> h, panicked |-> FALSE]
    ELSE bindParameters_missingNull(
             Set(h, e, params[i].Value,
                 IF i > Len(args) THEN NULL ELSE args[i]),
             e, params, args, i + 1)

RECURSIVE bindParameters(_, _, _, _, _)
bindParameters(h, e, params, args, i) ==
    IF i > Len(params) THEN [heap |-> h, panicked |-> FALSE]
    ELSE IF i > Len(args) THEN [heap |-> h, panicked |-> TRUE]
    ELSE bindParameters(Set(h, e, params[i].Value, args[i]), e, params,
                        args, i + 1)

extendedFunctionEnv(fn, args, s) ==
    LET bound(e, b) ==
            [env |-> e,
             s |-> Log([s EXCEPT !.heap = b.heap],
                       [ev |-> "extend", env |-> e,
                        params |-> [i \in 1..Len(fn.Parameters) |->
                                       fn.Parameters[i].Value],
                        args |-> args, store |-> b.heap[e].store,
                        panicked |-> b.panicked]),
             panicked |-> b.panicked]
        enclosed(h) ==
            bound(Len(h), bindParameters(h, Len(h), fn.Parameters, args, 1))
    IN  enclosed(NewEnclosedEnvironment(s.heap, fn.Env))

applyFunction(fn, args, s) ==
    LET returned(ext, val, s2) ==
            Ret(val, Log(s2, [ev |-> "callret", val |-> val,
                              env |-> ext.env, before |-> ext.s.heap,
                              after |-> s2.heap]))
        body(ext, evaluated) ==
            IF IsPanic(evaluated.v) THEN evaluated
            ELSE returned(ext, unwrapReturnValue(evaluated.v), evaluated.s)
        extended(ext) ==
            IF ext.panicked THEN Ret(Panic, ext.s)
            ELSE body(ext,
                      Eval(fn.Body, ext.env,
                           Log(ext.s, [ev |-> "call", addr |-> fn.addr,
                                       env |-> ext.env,
                                       outer |->
                                           ext.s.heap[ext.env].outer])))
    IN  CASE IsNilObj(fn) -> Ret(Panic, s)
          [] fn.kind = "FUNCTION" ->
                 extended(extendedFunctionEnv(fn, args, s))
          [] fn.kind = "BUILTIN" -> applyBuiltin(fn, args, s)
          [] OTHER -> Ret(newError("not a function: " \o Type(fn)), s)

\* Go iterates the map node.Pairs in an order of its choosing: each step
\* takes one of the pairs not yet visited, the one s.choices names.
evalHashLiteralLoop(remaining, pairs, addr, env, s) ==
    LET free == Len(remaining) > 1 /\ s.choices # <<>>
        stored(rest, key, val) ==
            IF Stops(val.v) THEN val
            ELSE evalHashLiteralLoop(
                     rest,
                     (HashKey(key.v) :> [Key |-> key.v, Val |-> val.v])
                         @@ pairs,
                     addr, env, val.s)
        keyed(i, rest, key) ==
            IF Stops(key.v) THEN key ELSE
            IF IsNilObj(key.v) THEN Ret(Panic, key.s) ELSE
            IF ~Hashable(key.v)
            THEN Ret(newError("unusable as hash key " \o Type(key.v)), key.s)
            ELSE stored(rest, key, Eval(remaining[i].Val, env, key.s))
        picked(i, s0) ==
            keyed(i,
                  [j \in 1..(Len(remaining) - 1) |->
                      IF j < i THEN remaining[j] ELSE remaining[j + 1]],
                  Eval(remaining[i].Key, env, s0))
    IN  IF remaining = <<>>
        THEN Ret([kind |-> "HASH", Pairs |-> pairs, addr |-> addr], s)
        ELSE picked(IF free THEN (Head(s.choices) % Len(remaining)) + 1
                    ELSE 1,
                    IF free THEN [s EXCEPT !.choices = Tail(@)] ELSE s)

evalHashLiteral(node, env, s) ==
    evalHashLiteralLoop(node.Pairs, EmptyStore, s.nalloc + 1, env, Alloc(s))

NodePos(node) == IF "Token" \in DOMAIN node THEN node.Token.Pos ELSE 0

EvalNode(node, env, s) ==
    CASE node.node = "Program" -> evalProgram(node.Statements, env, s)
      [] node.node = "BlockStatement" ->
             evalStatements(node.Statements, env, s)
      [] node.node = "ExpressionStatement" -> Eval(node.Expression, env, s)
      [] node.node = "IntegerLiteral" -> Ret(Integer(node.IntValue), s)
      [] node.node = "Boolean" ->
             Ret(nativeBoolToBooleanObject(node.BoolValue), s)
      [] node.node = "PrefixExpression" ->
             LET applied(right, val) ==
                     Ret(val, Log(right.s, [ev |-> "prefix",
                                            operator |-> node.Operator,
                                            right |-> right.v,
                                            val |-> val]))
                 operand(right) ==
                     IF Stops(right.v) THEN right
                     ELSE applied(right,
                                  evalPrefixExpression(node.Operator,
                                                       right.v))
             IN  operand(Eval(node.Right, env, s))
      [] node.node = "InfixExpression" ->
             LET applied(left, right, val) ==
                     Ret(val, Log(right.s, [ev |-> "infix",
                                            operator |-> node.Operator,
                                            left |-> left.v,
                                            right |-> right.v,
                                            val |-> val]))
                 operands(left, right) ==
                     IF Stops(right.v) THEN right
                     ELSE applied(left, right,
                                  evalInfixExpression(node.Operator, left.v,
                                                      right.v))
                 operand(left) ==
                     IF Stops(left.v) THEN left
                     ELSE operands(left, Eval(node.Right, env, left.s))
             IN  operand(Eval(node.Left, env, s))
      [] node.node = "IfExpression" -> evalIfExpression(node, env, s)
      [] node.node = "ReturnStatement" ->
             LET wrapped(val) ==
                     IF Stops(val.v) THEN val
                     ELSE Ret([kind |-> "RETURN_VALUE", Inner |-> val.v,
                               addr |-> val.s.nalloc + 1],
                              Log(Alloc(val.s),
                                  [ev |-> "return", val |-> val.v]))
             IN  wrapped(Eval(node.ReturnValue, env, s))
      [] node.node = "LetStatement" ->
             evalLetStatement(node, env, Eval(node.ValueExpr, env, s))
      [] node.node = "Identifier" -> evalIdentifier(node, env, s)
      [] node.node = "FunctionLiteral" ->
             Ret([kind |-> "FUNCTION", Parameters |-> node.Parameters,
                  Body |-> node.Body, Env |-> env, addr |-> s.nalloc + 1],
                 Log(Alloc(s), [ev |-> "fnlit", addr |-> s.nalloc + 1,
                                env |-> env]))
      [] node.node = "CallExpression" ->
             LET applied(fn, args) ==
                     IF args.panicked THEN Ret(Panic, args.s)
                     ELSE IF argumentsFailed(args.vs)
                          THEN Ret(args.vs[1], args.s)
                          ELSE applyFunction(fn.v, args.vs, args.s)
                 callee(fn) ==
                     IF Stops(fn.v) THEN fn
                     ELSE applied(fn, evalExpressions(node.Arguments, env,
                                                      fn.s))
             IN  callee(Eval(node.Function, env, s))
      [] node.node = "StringLiteral" -> Ret(String(Bytes[node.Value]), s)
      [] node.node = "ArrayLiteral" ->
             LET array(elements) ==
                     IF elements.panicked THEN Ret(Panic, elements.s)
                     ELSE IF argumentsFailed(elements.vs)
                          THEN Ret(elements.vs[1], elements.s)
                          ELSE NewArray(elements.vs, elements.s)
             IN  array(evalExpressions(node.Elements, env, s))
      [] node.node = "IndexExpression" ->
             LET applied(left, index, val) ==
                     Ret(val, Log(index.s, [ev |-> "index", left |-> left.v,
                                            index |-> index.v,
                                            val |-> val]))
                 indexed(left, index) ==
                     IF Stops(index.v) THEN index
                     ELSE applied(left, index,
                                  evalIndexExpression(left.v, index.v))
                 indexee(left) ==
                     IF Stops(left.v) THEN left
                     ELSE indexed(left, Eval(node.Index, env, left.s))
             IN  indexee(Eval(node.Left, env, s))
      [] node.node = "AssignmentExpression" ->
             evalAssignmentExpression(node, env,
                                      Eval(node.ValueExpr, env, s))
      [] node.node = "HashLiteral" -> evalHashLiteral(node, env, s)
      [] node.node = "nil *ast.LetStatement" -> Ret(Panic, s)
      [] OTHER -> Ret(NilObj, s)

Eval(node, env, s) ==
    LET evaluated(quiet, r) ==
            IF quiet \/ r.s.errored \/ ~isError(r.v) THEN r
            ELSE Ret(r.v, [Log(r.s, [ev |-> "error", msg |-> r.v.Message])
                              EXCEPT !.errored = TRUE])
    IN  evaluated(s.errored,
                  EvalNode(node, env,
                           Log(s, [ev |-> "eval", node |-> node.node,
                                   pos |-> NodePos(node)])))

\* the state an evaluation starts from: env 1 is object.NewEnvironment()
StartState(choices) ==
    [heap |-> NewEnvironment(<<>>), nalloc |-> 0, events |-> <<>>,
     choices |-> choices, errored |-> FALSE]

(***************************************************************************)
(* ast.Node.String(): the canonical, fully parenthesised form of a node.   *)
(***************************************************************************)
RECURSIVE Render(_)
RECURSIVE RenderList(_, _)
RenderList(nodes, sep) ==
    IF nodes = <<>> THEN ""
    ELSE IF Len(nodes) = 1 THEN Render(nodes[1])
         ELSE Render(nodes[1]) \o sep \o RenderList(Tail(nodes), sep)

Render(n) ==
    CASE n.node = "Program" -> RenderList(n.Statements, "")
      [] n.node = "LetStatement" ->
             "let " \o Render(n.Name) \o " = " \o Render(n.ValueExpr) \o ";"
      [] n.node = "ReturnStatement" ->
             "return " \o Render(n.ReturnValue) \o ";"
      [] n.node = "ExpressionStatement" -> Render(n.Expression)
      [] n.node = "BlockStatement" -> RenderList(n.Statements, "")
      [] n.node = "Identifier" -> n.Value
      [] n.node \in {"IntegerLiteral", "Boolean", "StringLiteral"} ->
             n.Token.Literal
      [] n.node = "PrefixExpression" ->
             "(" \o n.Operator \o Render(n.Right) \o ")"
      [] n.node = "InfixExpression" ->
             "(" \o Render(n.Left) \o " " \o n.Operator \o " "
                 \o Render(n.Right) \o ")"
      [] n.node = "IfExpression" ->
             "if" \o Render(n.Condition) \o " " \o Render(n.Consequence)
                 \o (IF IsNil(n.Alternative) THEN ""
                     ELSE "else " \o Render(n.Alternative))
      [] n.node = "FunctionLiteral" ->
             "fn(" \o RenderList(n.Parameters, ", ") \o ") "
                 \o Render(n.Body)
      [] n.node = "CallExpression" ->
             Render(n.Function) \o "(" \o RenderList(n.Arguments, ", ")
                 \o ")"
      [] n.node = "ArrayLiteral" ->
             "[" \o RenderList(n.Elements, ", ") \o "]"
      [] n.node = "IndexExpression" ->
             "(" \o Render(n.Left) \o "[" \o Render(n.Index) \o "])"
      [] n.node = "AssignmentExpression" ->
             "(" \o Render(n.Name) \o " = " \o Render(n.ValueExpr) \o ")"
      [] n.node = "HashLiteral" ->
             "{" \o RenderList([i \in 1..Len(n.Pairs) |-> n.Pairs[i].Key],
                               ", ")
                 \o "}"
      [] OTHER -> "<nil>"

(***************************************************************************)
(* The source texts explored, each a sequence of words.                    *)
(***************************************************************************)
BinaryOperators == {"+", "-", "*", "/", "<", ">", "==", "!="}
PrefixOperators == {"-", "!"}
Operands == {"x", "1"}
IntWords == {ToString(i) : i \in 0..MaxInt}
Conditions == {"true", "false"}

RECURSIVE WordSeqs(_, _)
WordSeqs(alphabet, n) ==
    IF n = 0 THEN {<<>>}
    ELSE LET shorter == WordSeqs(alphabet, n - 1)
         IN  shorter \cup {Append(ws, w) : ws \in shorter, w \in alphabet}

\* every token stream of at most MaxTokens tokens over a small alphabet
ShortSources ==
    WordSeqs({"x", "5", "=", "+", "(", ")", "let", ";", "{", "["},
             MaxTokens) \ {<<>>}

\* a op1 b op2 c
BinarySources ==
    {<<a, op1, b, op2, c>> : a \in Operands, b \in Operands, c \in Operands,
                             op1 \in BinaryOperators, op2 \in BinaryOperators}

\* prefix operators, calls and indexes among binary operators
BindingSources ==
    {<<pre, a, op, b>> : pre \in PrefixOperators, a \in Operands,
                         b \in Operands, op \in BinaryOperators}
    \cup {<<"a", op1, "x", "[", i, "]", op2, "d">> :
              i \in Operands, op1 \in BinaryOperators,
              op2 \in BinaryOperators}
    \cup {<<"a", op1, "f", "(", "b", op, "c", ")", op2, "d">> :
              op \in {"+", "*"}, op1 \in BinaryOperators,
              op2 \in BinaryOperators}
    \cup {<<pre, "x", "[", i, "]">> : pre \in PrefixOperators,
                                      i \in Operands}
    \cup {<<pre, "f", "(", y, ")">> : pre \in PrefixOperators,
                                      y \in Operands}

\* `=` in infix position
AssignSources ==
    {<<"5", "=", "3">>, <<"1", "+", "a", "=", "2">>,
     <<"let", "a", "=", "1", ";", "a", "=", "2", ";", "a">>,
     <<"(", "a", ")", "=", "2">>, <<"a", "=", "b", "=", "2">>}

\* array literals and calls whose k-th expression may fail
Elements == {<<"1">>, <<"foo">>, <<"-", "true">>}
Continuations == {<<>>, <<";", "2">>}

ElementSources ==
    {<<"[">> \o e1 \o <<"]">> \o t : e1 \in Elements, t \in Continuations}
    \cup {<<"[">> \o e1 \o <<",">> \o e2 \o <<"]">> \o t :
              e1 \in Elements, e2 \in Elements, t \in Continuations}
    \cup {<<"[">> \o e1 \o <<",">> \o e2 \o <<",">> \o e3 \o <<"]">> :
              e1 \in Elements, e2 \in Elements, e3 \in Elements}
    \cup {<<"let", "f", "=", "fn", "(", "a", ",", "b", ")", "{", "b", "}",
            ";", g, "(">> \o e1 \o <<",">> \o e2 \o <<")">> \o t :
              g \in {"f", "len", "push", "first"},
              e1 \in Elements \cup {<<"[", "]">>}, e2 \in Elements,
              t \in Continuations}
    \cup {<<g, "(">> \o e1 \o <<")">> :
              g \in {"len", "first", "last", "rest", "puts"},
              e1 \in Elements \cup {<<"[", "1", "]">>, <<"\"a\"">>}}

\* `return` inside an if-block used as an operand
IfReturn(c, v) == <<"if", "(", c, ")", "{", "return", v, "}">>

OperandReturnSources ==
    UNION {
        {<<"return">> \o IfReturn(c, v),
         <<"let", "x", "=">> \o IfReturn(c, v) \o <<";", "x">>,
         <<"[">> \o IfReturn(c, v) \o <<",", "2", "]">>,
         <<"-">> \o IfReturn(c, v),
         <<"!">> \o IfReturn(c, v),
         IfReturn(c, v) \o <<"+", "1">>,
         <<"len", "(">> \o IfReturn(c, v) \o <<")">>,
         <<"{", "1", ":">> \o IfReturn(c, v) \o <<"}">>,
         <<"let", "f", "=", "fn", "(", ")", "{", "return">>
             \o IfReturn(c, v) \o <<"}", ";", "f", "(", ")">>} :
        c \in Conditions, v \in IntWords}

\* `return` inside if-blocks nested at statement position
Tails == {<<>>, <<"return", "9", ";">>, <<"let", "t", "=", "9", ";">>}

RECURSIVE Nest(_)
Nest(d) ==
    IF d = 0 THEN {<<"return", v, ";">> : v \in IntWords}
    ELSE {<<"if", "(", c, ")", "{">> \o body \o t \o <<"}">> :
              c \in Conditions, body \in Nest(d - 1), t \in Tails}

NestedReturnSources ==
    UNION {
        {n \o t : n \in Nest(d), t \in Tails}
        \cup {<<"let", "f", "=", "fn", "(", ")", "{">> \o n \o t
                  \o <<"}", ";", "f", "(", ")", "+", "5">> :
                  n \in Nest(d), t \in Tails} :
        d \in 0..MaxDepth}

\* assignments and closures
ScopeSources ==
    UNION {
        {<<"let", "x", "=", A, ";", "x", "=", B, ";", "x">>,
         <<"let", "x", "=", A, ";", "let", "f", "=", "fn", "(", ")", "{",
           "x", "=", B, ";", "x", "}", ";", "f", "(", ")", ";", "x">>,
         <<"let", "x", "=", A, ";", "let", "f", "=", "fn", "(", "x", ")",
           "{", "x", "=", B, ";", "x", "}", ";", "f", "(", "5", ")", ";",
           "x">>,
         <<"let", "f", "=", "fn", "(", ")", "{", "y", "=", B, "}", ";",
           "f", "(", ")">>,
         <<"let", "x", "=", A, ";", "let", "f", "=", "fn", "(", ")", "{",
           "let", "g", "=", "fn", "(", ")", "{", "x", "=", B, "}", ";",
           "g", "(", ")", ";", "x", "}", ";", "f", "(", ")">>,
         <<"let", "x", "=", A, ";", "let", "f", "=", "fn", "(", ")", "{",
           "x", "}", ";", "let", "g", "=", "fn", "(", "x", ")", "{", "f",
           "(", ")", "}", ";", "g", "(", B, ")">>,
         <<"let", "mk", "=", "fn", "(", "x", ")", "{", "fn", "(", ")", "{",
           "x", "}", "}", ";", "let", "h", "=", "mk", "(", A, ")", ";",
           "let", "x", "=", B, ";", "h", "(", ")">>,
         <<"let", "x", "=", A, ";", "let", "f", "=", "fn", "(", ")", "{",
           "x", "}", ";", "let", "x", "=", B, ";", "f", "(", ")">>,
         <<"let", "x", "=", A, ";", "let", "f", "=", "fn", "(", ")", "{",
           "x", "}", ";", "x", "=", B, ";", "f", "(", ")">>,
         <<"let", "mk", "=", "fn", "(", "x", ")", "{", "fn", "(", "y", ")",
           "{", "x", "+", "y", "}", "}", ";", "let", "a", "=", "mk", "(", A,
           ")", ";", "let", "b", "=", "mk", "(", B, ")", ";", "a", "(", "1",
           ")", "+", "b", "(", "1", ")">>,
         <<"let", "mk", "=", "fn", "(", "n", ")", "{", "fn", "(", ")", "{",
           "n", "=", "n", "+", B, ";", "n", "}", "}", ";", "let", "c", "=",
           "mk", "(", A, ")", ";", "c", "(", ")", ";", "c", "(", ")">>,
         <<"let", "mk", "=", "fn", "(", "x", ")", "{", "let", "get", "=",
           "fn", "(", ")", "{", "x", "}", ";", "x", "=", B, ";", "get", "}",
           ";", "let", "h", "=", "mk", "(", A, ")", ";", "h", "(", ")">>} :
        A \in IntWords, B \in IntWords}

\* hash literals, indexed or not
HashKeys == {"1", "true", "\"a\"", "a"}

HashSources ==
    LET lit(k1, v1, k2, v2) == <<"{", k1, ":", v1, ",", k2, ":", v2, "}">>
    IN  {lit(k1, "1", k2, v2) : k1 \in HashKeys, k2 \in HashKeys,
                                v2 \in {"2", "b"}}
        \cup {lit(k1, "1", k2, v2) \o <<"[", k, "]">> :
                  k1 \in HashKeys, k2 \in HashKeys, v2 \in {"2", "b"},
                  k \in {"1", "true", "\"a\""}}

\* the built-ins applied to argument lists of every shape
NoValueArguments ==
    {<<"if", "(", "true", ")", "{", "}">>,
     <<"fn", "(", ")", "{", "}", "(", ")">>,
     <<"x", "=", "1">>}

ValueArguments ==
    {<<"1">>, <<"\"a\"">>, <<"true">>, <<"[", "1", "]">>, <<"[", "]">>,
     <<"{", "}">>, <<"len">>, <<"fn", "(", ")", "{", "}">>,
     <<"if", "(", "false", ")", "{", "1", "}">>}

Arguments == ValueArguments \cup NoValueArguments

BuiltinSources ==
    LET call(g, args) == <<"let", "x", "=", "0", ";", g, "(">> \o args
                             \o <<")">>
    IN  {call(g, <<>>) : g \in BuiltinNames}
        \cup {call(g, a) : g \in BuiltinNames, a \in Arguments}
        \cup {call(g, a \o <<",">> \o b) :
                  g \in BuiltinNames, a \in Arguments,
                  b \in {<<"1">>, <<"[", "]">>, <<"x", "=", "1">>}}
        \cup {call("push", a \o <<",">> \o b) :
                  a \in Arguments, b \in Arguments}
        \cup {call(g, <<"[", "]", ",", "1", ",", "1">>) : g \in BuiltinNames}

\* push and rest on arrays bound to a name that is read again afterwards
ArrayLiterals == {<<"[", "]">>, <<"[", "1", "]">>, <<"[", "1", ",", "0", "]">>}
Pushed == {<<"1">>, <<"a">>, <<"\"a\"">>}

ArraySources ==
    UNION {
        {<<"let", "a", "=">> \o A \o <<";", "let", "b", "=", "push", "(",
           "a", ",">> \o X \o <<")", ";", "len", "(", "a", ")", ";", "a">>,
         <<"let", "a", "=">> \o A \o <<";", "let", "b", "=", "rest", "(",
           "a", ")", ";", "len", "(", "a", ")", ";", "a">>,
         <<"let", "a", "=">> \o A \o <<";", "push", "(", "push", "(", "a",
           ",">> \o X \o <<")", ",">> \o X \o <<")", ";", "a">>,
         <<"let", "a", "=">> \o A \o <<";", "rest", "(", "rest", "(", "a",
           ")", ")", ";", "a">>,
         <<"let", "a", "=">> \o A \o <<";", "let", "b", "=", "push", "(",
           "a", ",">> \o X \o <<")", ";", "rest", "(", "b", ")", ";",
           "a">>} :
        A \in ArrayLiterals, X \in Pushed}

\* `!` and `if` on an operand of every kind
TruthOperands ==
    {<<"true">>, <<"false">>, <<"if", "(", "false", ")", "{", "1", "}">>,
     <<"\"\"">>, <<"\"a\"">>, <<"[", "]">>, <<"[", "0", "]">>, <<"{", "}">>,
     <<"fn", "(", ")", "{", "}">>, <<"len">>, <<"1", "<", "0">>,
     <<"0", "==", "0">>}
    \cup {<<i>> : i \in IntWords}

TruthSources ==
    UNION {
        {<<"!">> \o X,
         <<"!", "!">> \o X,
         <<"if", "(">> \o X \o <<")", "{", "1", "}">>,
         <<"!">> \o X \o <<";", "if", "(">> \o X
             \o <<")", "{", "1", "}", "else", "{", "0", "}">>} :
        X \in TruthOperands}

\* names bound by the user, by the built-ins table, by both and by neither
IdentSources ==
    UNION {
        {<<"let", g, "=", A, ";", g>>,
         <<"let", "f", "=", "fn", "(", g, ")", "{", g, "}", ";", "f", "(",
           A, ")", ";", g>>,
         <<"let", "f", "=", "fn", "(", ")", "{", g, "}", ";", "f", "(",
           ")">>,
         <<"let", g, "=", A, ";", "let", "f", "=", "fn", "(", ")", "{", g,
           "}", ";", "f", "(", ")">>,
         <<"let", "f", "=", "fn", "(", ")", "{", "let", g, "=", A, ";", g,
           "}", ";", "f", "(", ")", ";", g>>,
         <<"let", g, "=", "fn", "(", "a", ")", "{", A, "}", ";", g, "(",
           "\"a\"", ")">>} :
        g \in {"len", "push", "foo"}, A \in IntWords}

\* an array indexed below, inside and above its range
Indexes ==
    {<<"0">>, <<"1">>, <<"2">>, <<"3">>, <<"-", "1">>, <<"-", "2">>,
     <<"1", "-", "1">>}

IndexSources ==
    UNION {
        {A \o <<"[">> \o i \o <<"]">>,
         <<"let", "a", "=">> \o A \o <<";", "a", "[">> \o i \o <<"]">>,
         <<"let", "a", "=">> \o A \o <<";", "push", "(", "a", ",", "5", ")",
           "[">> \o i \o <<"]">>} :
        A \in ArrayLiterals, i \in Indexes}

\* hashes indexed with keys of every kind, present and absent
HashLiterals ==
    {<<"{", "}">>, <<"{", "1", ":", "5", "}">>,
     <<"{", "true", ":", "5", "}">>, <<"{", "\"a\"", ":", "5", "}">>,
     <<"{", "1", ":", "5", ",", "true", ":", "6", "}">>,
     <<"{", "0", ":", "5", ",", "false", ":", "6", ",", "\"\"", ":", "7",
       "}">>}

HashIndexes ==
    {<<"0">>, <<"1">>, <<"true">>, <<"false">>, <<"\"a\"">>, <<"\"\"">>,
     <<"\"b\"">>, <<"[", "]">>, <<"{", "}">>, <<"fn", "(", ")", "{", "}">>,
     <<"len">>, <<"if", "(", "false", ")", "{", "1", "}">>}

HashIndexSources ==
    {H \o <<"[">> \o k \o <<"]">> : H \in HashLiterals, k \in HashIndexes}
    \cup {<<"{", "\"pmgnilgbcncmfjeo\"", ":", "5", "}", "[", k, "]">> :
              k \in {"\"pmgnilgbcncmfjeo\"", "\"ddcmokalncjafdld\"",
                     "\"a\""}}

\* every infix operator between operands of every kind
InfixOperands ==
    {<<"1">>, <<"0">>, <<"\"a\"">>, <<"\"\"">>, <<"true">>, <<"false">>,
     <<"[", "]">>, <<"{", "}">>, <<"len">>, <<"fn", "(", ")", "{", "}">>,
     <<"if", "(", "false", ")", "{", "1", "}">>}

InfixSources ==
    {L \o <<op>> \o R : L \in InfixOperands, R \in InfixOperands,
                        op \in BinaryOperators}
    \cup {<<"let", "a", "=">> \o L \o <<";", "a", op, "a">> :
              L \in InfixOperands, op \in BinaryOperators}

\* function literals with every token in parameter position
ParameterWords == {"x", "y", "1", "+", "true", "\"a\"", ",", "fn"}

ParameterSources ==
    {<<"fn", "(", a, ")", "{", "}">> : a \in ParameterWords}
    \cup {<<"fn", "(", a, ",", b, ")", "{", "}">> :
              a \in ParameterWords, b \in ParameterWords}
    \cup {<<"fn", "(", a, b, ")", "{", "}">> :
              a \in ParameterWords, b \in ParameterWords}
    \cup {<<"let", "f", "=", "fn", "(", "x", ")", "{", "fn", "(", a, ",",
            "y", ")", "{", "x", "}", "}", ";", "f", "(", "1", ")", "(", "1",
            ",", "0", ")">> : a \in ParameterWords}

\* integer literals, with and without leading zeros
IntegerSources ==
    {<<w>> : w \in DOMAIN Digits}
    \cup {<<w, ";", v>> : w \in DOMAIN Digits, v \in {"010", "08", "7"}}

\* a function whose body returns, called from a caller that has more to do
ReturningBodies ==
    UNION {
        {<<"return", v, ";">>,
         <<"return", v, ";", "9">>,
         <<"if", "(", "true", ")", "{", "return", v, ";", "}", "9">>,
         <<"return">> \o IfReturn("true", v)} :
        v \in IntWords}

\* (each of these programs ends in the statement `5`)
ContinuingSources ==
    UNION {
        {<<"let", "f", "=", "fn", "(", ")", "{">> \o B
             \o <<"}", ";", "f", "(", ")", ";", "5">>,
         <<"let", "f", "=", "fn", "(", ")", "{">> \o B
             \o <<"}", ";", "let", "g", "=", "fn", "(", ")", "{", "f", "(",
                  ")", ";", "5", "}", ";", "g", "(", ")">>,
         <<"let", "f", "=", "fn", "(", ")", "{">> \o B
             \o <<"}", ";", "if", "(", "true", ")", "{", "f", "(", ")", ";",
                  "4", "}", ";", "5">>} :
        B \in ReturningBodies}

ReturnCallSources ==
    ContinuingSources
    \cup {<<"let", "f", "=", "fn", "(", ")", "{">> \o B
              \o <<"}", ";", "f", "(", ")", "+", "5">> :
              B \in ReturningBodies}

\* value expressions that evaluate to an Error
FailingValues ==
    {<<"y">>, <<"-", "true">>, <<"1", "+", "true">>}

\* a `let` or an assignment that fails, at the top level and inside a call
BindFailSources ==
    UNION {
        {<<"let", "x", "=", "1", ";", "let", "x", "=">> \o V,
         <<"let", "x", "=", "1", ";", "let", "z", "=">> \o V,
         <<"let", "x", "=", "1", ";", "x", "=">> \o V,
         <<"let", "x", "=", "1", ";", "let", "f", "=", "fn", "(", "a", ")",
           "{", "let", "x", "=">> \o V \o <<"}", ";", "f", "(", "2", ")">>,
         <<"let", "x", "=", "1", ";", "let", "f", "=", "fn", "(", "a", ")",
           "{", "let", "a", "=">> \o V \o <<"}", ";", "f", "(", "2", ")">>,
         <<"let", "x", "=", "1", ";", "let", "f", "=", "fn", "(", "a", ")",
           "{", "x", "=">> \o V \o <<"}", ";", "f", "(", "2", ")">>,
         <<"let", "x", "=", "1", ";", "let", "f", "=", "fn", "(", "a", ")",
           "{", "a", "=">> \o V \o <<"}", ";", "f", "(", "2", ")">>} :
        V \in FailingValues}
    \cup {<<"z", "=", "1">>,
          <<"let", "x", "=", "1", ";", "z", "=", "2", ";", "x">>,
          <<"let", "x", "=", "1", ";", "let", "f", "=", "fn", "(", "a", ")",
            "{", "z", "=", "a", "}", ";", "f", "(", "2", ")">>,
          <<"let", "f", "=", "fn", "(", "a", ")", "{", "let", "g", "=",
            "fn", "(", ")", "{", "z", "=", "a", "}", ";", "g", "(", ")",
            "}", ";", "f", "(", "2", ")">>}

\* calls with as many arguments as parameters, with more and with fewer
ParameterLists ==
    {<<>>, <<"a">>, <<"a", ",", "b">>, <<"a", ",", "a">>}

ArgumentLists ==
    {<<>>, <<"1">>, <<"1", ",", "2">>, <<"1", ",", "2", ",", "3">>,
     <<"1", ",", "y">>}

ArityBodies == {<<"a">>, <<"b">>, <<"7">>}

AritySources ==
    {<<"let", "f", "=", "fn", "(">> \o P \o <<")", "{">> \o B
         \o <<"}", ";", "f", "(">> \o A \o <<")">> :
         P \in ParameterLists, A \in ArgumentLists, B \in ArityBodies}

\* boolean-valued expressions: literals, comparisons of integers, `==`,
\* `!=` and `!`
BooleanOperands ==
    {<<"true">>, <<"false">>,
     <<"(", "1", "<", "2", ")">>, <<"(", "1", ">", "2", ")">>,
     <<"(", "1", "==", "1", ")">>, <<"(", "1", "!=", "1", ")">>,
     <<"(", "true", "==", "true", ")">>, <<"(", "true", "!=", "true", ")">>,
     <<"!", "true">>, <<"!", "false">>, <<"!", "5">>, <<"!", "!", "0">>}

BooleanSources ==
    {L \o <<op>> \o R : L \in BooleanOperands, R \in BooleanOperands,
                        op \in {"==", "!="}}
    \cup {<<"let", "a", "=">> \o L \o <<";", "let", "f", "=", "fn", "(",
            "b", ")", "{", "[", "a", op, "b", ",", "b", "]", "}", ";",
            "f", "(">> \o R \o <<")">> :
              L \in BooleanOperands, R \in {<<"true">>, <<"!", "5">>},
              op \in {"==", "!="}}

\* token streams that break off where a parselet expects more
BrokenSources ==
    {<<"-">>, <<"!", ";", "x">>, <<"5", "+">>, <<"5", "+", ";", "x">>,
     <<"let">>, <<"let", "x">>, <<"let", "x", "=">>, <<"let", "5", ";", "x">>,
     <<"return">>, <<"return", ";">>,
     <<"f", "(", "1">>, <<"f", "(", "1", ",">>, <<"f", "(", "1", ";", "x">>,
     <<"[", "1">>, <<"[", "1", ";", "x">>, <<"x", "[", "1">>, <<"x", "[">>,
     <<"(", "1">>, <<"(", "1", ";", "x">>,
     <<"fn">>, <<"fn", "(", "x">>, <<"fn", "(", "x", ")">>,
     <<"fn", "(", "x", ";", ")", "{", "}">>,
     <<"if">>, <<"if", "(", "x">>, <<"if", "(", "x", ")">>,
     <<"if", "(", "x", ")", "{", "1", "}", "else">>,
     <<"if", "(", ")", "{", "1", "}">>,
     <<"{", "1">>, <<"{", "1", ":">>, <<"{", "1", ":", "2">>,
     <<"{", "1", ":", "2", ";", "}">>,
     <<"x", "=">>, <<"x", "=", ";", "x">>,
     <<"-", "-">>, <<"1", "+", "(", "2", "*">>, <<"f", "(", "-", ")">>,
     <<"[", "1", ",", "]">>, <<"fn", "(", ")", "{", "let", "}">>,
     <<"if", "(", "x", ")", "{", "5", "+", "}">>}

\* expressions that evaluate to no value, as operand, index target, index
\* and call target
NoValueOperands ==
    {<<"(">> \o N \o <<")">> : N \in NoValueArguments} \cup {<<"y">>}

NoValueOperandSources ==
    UNION {
        {<<"let", "x", "=", "0", ";", "let", "y", "=", "if", "(", "true",
           ")", "{", "}", ";">> \o C :
             C \in {<<"-">> \o N, <<"!">> \o N, N \o <<"+", "1">>,
                    <<"1", "+">> \o N, N \o <<"==">> \o N,
                    N \o <<"[", "0", "]">>, <<"[", "1", "]", "[">> \o N
                        \o <<"]">>,
                    <<"{", "1", ":", "2", "}", "[">> \o N \o <<"]">>,
                    N \o <<"(", ")">>}} :
        N \in NoValueOperands}

\* source that ends inside the block of an `if` or of a function literal
UnterminatedBlockSources ==
    {<<"if", "(", "x", ")", "{", "1">>,
     <<"if", "(", "x", ")", "{">>,
     <<"if", "(", "x", ")", "{", "1", ";">>,
     <<"if", "(", "x", ")", "{", "1", "}", "else", "{", "2">>,
     <<"if", "(", "x", ")", "{", "1", "}", "else", "{">>,
     <<"fn", "(", ")", "{", "1">>,
     <<"fn", "(", ")", "{">>,
     <<"fn", "(", "a", ")", "{", "let", "b", "=", "a", ";", "b">>,
     <<"let", "f", "=", "fn", "(", ")", "{", "if", "(", "x", ")", "{", "1",
       "}">>,
     <<"let", "x", "=", "1", ";", "if", "(", "x", ")", "{", "x">>}

Sources ==
    ShortSources \cup BinarySources \cup BindingSources \cup AssignSources
    \cup ElementSources \cup OperandReturnSources \cup NestedReturnSources
    \cup ScopeSources \cup HashSources \cup BuiltinSources
    \cup ArraySources \cup TruthSources \cup IdentSources
    \cup IndexSources \cup HashIndexSources \cup InfixSources
    \cup ParameterSources \cup IntegerSources \cup ReturnCallSources
    \cup BindFailSources \cup AritySources \cup BooleanSources
    \cup BrokenSources \cup NoValueOperandSources
    \cup UnterminatedBlockSources

(***************************************************************************)
(* The pipeline: the host lexes a source text, parses it and, when the     *)
(* parser reported no error, evaluates the program in a fresh environment  *)
(* (and may evaluate it again, in another fresh environment).              *)
(***************************************************************************)
NoProgram == [node |-> "Program", Statements |-> <<>>]

\* the orders in which Go may iterate the maps of one evaluation
Choices == [1..MaxChoices -> {0, 1}]

Init ==
    /\ input \in {Lex(ws) : ws \in Sources}
    /\ parser = New([input |-> input, position |-> 1])
    /\ pc = "ready"
    /\ program = NoProgram
    /\ errors = <<>>
    /\ result = None
    /\ prior = None
    /\ runs = 0
    /\ heap = <<>>
    /\ events = <<>>
    /\ hashA = None
    /\ hashB = None
    /\ keyA = None
    /\ keyB = None

Parse ==
    /\ pc = "ready"
    /\ LET r == ParseProgram(parser)
       IN  /\ pc' = IF r.p.panicked THEN "parse panic" ELSE "parsed"
           /\ program' = IF r.p.panicked THEN NoProgram ELSE r.n
           /\ errors' = r.p.errors
           /\ parser' = r.p
    /\ UNCHANGED <<input, result, prior, runs, heap, events,
                   hashA, hashB, keyA, keyB>>

Evaluate ==
    /\ pc \in {"parsed", "done"}
    /\ errors = <<>>
    /\ runs < MaxRuns
    /\ \E choices \in Choices :
           LET r == Eval(program, 1, StartState(choices))
           IN  /\ pc' = IF IsPanic(r.v) THEN "eval panic" ELSE "done"
               /\ result' = r.v
               /\ heap' = r.s.heap
               /\ events' = r.s.events
    /\ prior' = result
    /\ runs' = runs + 1
    /\ UNCHANGED <<input, program, errors, parser, hashA, hashB, keyA,
                   keyB>>

Next == Parse \/ Evaluate

Spec == Init /\ [][Next]_vars

(***************************************************************************)
(* Properties of the parser.                                               *)
(***************************************************************************)
\* the ranks the binary operators are documented to have
BinaryRank ==
    ("==" :> 1) @@ ("!=" :> 1) @@ ("<" :> 2) @@ (">" :> 2) @@
    ("+" :> 3) @@ ("-" :> 3) @@ ("*" :> 4) @@ ("/" :> 4)

IsOperandAt(i) == input[i].Type \in {"IDENT", "INT"}

IsBinaryAt(i) ==
    input[i].Type \in {"PLUS", "MINUS", "ASTERISK", "SLASH", "LT", "GT",
                       "EQ", "NOT_EQ"}

IsPrefixAt(i) == input[i].Type \in {"MINUS", "BANG"}

\* the canonical form of `a op1 b op2 c` for operands already rendered
Grouped(a, op1, b, op2, c) ==
    IF BinaryRank[op1] >= BinaryRank[op2]
    THEN "((" \o a \o " " \o op1 \o " " \o b \o ") " \o op2 \o " " \o c
             \o ")"
    ELSE "(" \o a \o " " \o op1 \o " (" \o b \o " " \o op2 \o " " \o c
             \o "))"

IsBinaryChain ==
    /\ Len(input) = 5
    /\ IsOperandAt(1) /\ IsBinaryAt(2) /\ IsOperandAt(3) /\ IsBinaryAt(4)
    /\ IsOperandAt(5)

\* C1: `a op1 b op2 c` parses as ((a op1 b) op2 c) when op1 ranks at least
\* as high as op2 and as (a op1 (b op2 c)) when op1 ranks lower, the ranks
\* being EQUALS < LESSGREATER < SUM < PRODUCT.
C1_BinaryPrecedence ==
    (pc # "ready" /\ IsBinaryChain) =>
        /\ errors = <<>>
        /\ Render(program) =
               Grouped(input[1].Literal, input[2].Literal, input[3].Literal,
                       input[4].Literal, input[5].Literal)

C1_Witness ==
    /\ pc = "parsed"
    /\ IsBinaryChain
    /\ input[2].Literal = "+"
    /\ input[4].Literal = "*"
    /\ program.Statements[1].Expression.Operator = "+"
    /\ program.Statements[1].Expression.Right.node = "InfixExpression"

IsPrefixedBinary ==
    /\ Len(input) = 4
    /\ IsPrefixAt(1) /\ IsOperandAt(2) /\ IsBinaryAt(3) /\ IsOperandAt(4)

IsIndexInChain ==
    /\ Len(input) = 8
    /\ IsOperandAt(1) /\ IsBinaryAt(2) /\ IsOperandAt(3)
    /\ input[4].Type = "LBRACKET" /\ IsOperandAt(5)
    /\ input[6].Type = "RBRACKET" /\ IsBinaryAt(7) /\ IsOperandAt(8)

IsCallInChain ==
    /\ Len(input) = 10
    /\ IsOperandAt(1) /\ IsBinaryAt(2) /\ input[3].Type = "IDENT"
    /\ input[4].Type = "LPAREN" /\ IsOperandAt(5) /\ IsBinaryAt(6)
    /\ IsOperandAt(7) /\ input[8].Type = "RPAREN" /\ IsBinaryAt(9)
    /\ IsOperandAt(10)

IsPrefixedIndex ==
    /\ Len(input) = 5
    /\ IsPrefixAt(1) /\ IsOperandAt(2) /\ input[3].Type = "LBRACKET"
    /\ IsOperandAt(4) /\ input[5].Type = "RBRACKET"

IsPrefixedCall ==
    /\ Len(input) = 5
    /\ IsPrefixAt(1) /\ input[2].Type = "IDENT" /\ input[3].Type = "LPAREN"
    /\ IsOperandAt(4) /\ input[5].Type = "RPAREN"

\* C2: a call or an index in infix position binds tighter than every prefix
\* and binary operator, and a prefix operator binds tighter than every
\* binary operator.
C2_CallIndexPrefixBinding ==
    pc # "ready" =>
        /\ IsPrefixedBinary =>
               Render(program) =
                   "((" \o input[1].Literal \o input[2].Literal \o ") "
                       \o input[3].Literal \o " " \o input[4].Literal \o ")"
        /\ IsIndexInChain =>
               Render(program) =
                   Grouped(input[1].Literal, input[2].Literal,
                           "(" \o input[3].Literal \o "["
                               \o input[5].Literal \o "])",
                           input[7].Literal, input[8].Literal)
        /\ IsCallInChain =>
               Render(program) =
                   Grouped(input[1].Literal, input[2].Literal,
                           input[3].Literal \o "((" \o input[5].Literal
                               \o " " \o input[6].Literal \o " "
                               \o input[7].Literal \o "))",
                           input[9].Literal, input[10].Literal)
        /\ IsPrefixedIndex =>
               Render(program) =
                   "(" \o input[1].Literal \o "(" \o input[2].Literal
                       \o "[" \o input[4].Literal \o "]))"
        /\ IsPrefixedCall =>
               Render(program) =
                   "(" \o input[1].Literal \o input[2].Literal \o "("
                       \o input[4].Literal \o "))"

C2_Witness ==
    /\ pc = "parsed"
    /\ IsIndexInChain
    /\ Render(program) = "((a * (x[1])) * d)"

\* C3: parsing never panics; whatever the token stream, ParseProgram
\* returns normally.
C3_ParseNeverPanics == pc # "parse panic"

(***************************************************************************)
(* Properties of the evaluator.                                            *)
(***************************************************************************)
\* same kind and same content, addresses aside
RECURSIVE SameContent(_, _)
SameContent(a, b) ==
    /\ a.kind = b.kind
    /\ CASE a.kind = "INTEGER" -> a.IntValue = b.IntValue
         [] a.kind = "BOOLEAN" -> a.BoolValue = b.BoolValue
         [] a.kind = "STRING" -> a.StrValue = b.StrValue
         [] a.kind = "ERROR" -> a.Message = b.Message
         [] a.kind = "RETURN_VALUE" -> SameContent(a.Inner, b.Inner)
         [] a.kind = "ARRAY" ->
                /\ Len(a.Elements) = Len(b.Elements)
                /\ \A i \in 1..Len(a.Elements) :
                       SameContent(a.Elements[i], b.Elements[i])
         [] a.kind = "HASH" ->
                /\ DOMAIN a.Pairs = DOMAIN b.Pairs
                /\ \A k \in DOMAIN a.Pairs :
                       /\ SameContent(a.Pairs[k].Key, b.Pairs[k].Key)
                       /\ SameContent(a.Pairs[k].Val, b.Pairs[k].Val)
         [] a.kind = "FUNCTION" ->
                a.Parameters = b.Parameters /\ a.Body = b.Body
         [] a.kind = "BUILTIN" -> a.name = b.name
         [] OTHER -> TRUE

PutsFree == \A i \in 1..Len(input) : input[i].Literal # "puts"

\* C4: two evaluations of the parse of one puts-free source text, each from
\* a fresh environment, end in the same value (same kind, same content,
\* same Error message), whatever the order in which the pairs of a hash
\* literal are visited.
C4_Deterministic ==
    (runs >= 2 /\ PutsFree) => SameContent(prior, result)

EventsAfter(i, kinds) ==
    {j \in (i + 1)..Len(events) : events[j].ev \in kinds}

\* C5: once an Error is produced nothing more is evaluated or applied, and
\* the result of the Program is that Error.
C5_ErrorShortCircuits ==
    \A i \in 1..Len(events) :
        events[i].ev = "error" =>
            /\ EventsAfter(i, {"eval", "call", "builtin"}) = {}
            /\ result.kind = "ERROR"
            /\ result.Message = events[i].msg

ObjectTypes ==
    {"INTEGER", "BOOLEAN", "NULL", "RETURN_VALUE", "ERROR", "FUNCTION",
     "STRING", "BUILTIN", "ARRAY", "HASH"}

\* the messages of newError that name the kind RETURN_VALUE as an operand
NamesReturnValue(msg) ==
    \/ \E op \in {"-", "!"} : msg = "unknown operator: " \o op \o "RETURN_VALUE"
    \/ \E op \in {"+", "-", "*", "/", "<", ">", "==", "!="},
          t \in ObjectTypes, head \in {"type mismatch: ", "unknown operator: "} :
           \/ msg = head \o "RETURN_VALUE " \o op \o " " \o t
           \/ msg = head \o t \o " " \o op \o " RETURN_VALUE"
    \/ msg \in {"unusable as hash key: RETURN_VALUE",
                "unusable as hash key RETURN_VALUE",
                "index operator not supported: RETURN_VALUE",
                "not a function: RETURN_VALUE",
                "argument to 'len' not supported, got=RETURN_VALUE",
                "argument to 'first' must be an ARRAY, got=RETURN_VALUE",
                "argument to 'last' must be an ARRAY, got=RETURN_VALUE",
                "argument to 'rest' must be an ARRAY, got=RETURN_VALUE",
                "first argument to 'push' must be an ARRAY, got=RETURN_VALUE"}

RECURSIVE ContainsReturnValue(_)
ContainsReturnValue(obj) ==
    CASE obj.kind = "RETURN_VALUE" -> TRUE
      [] obj.kind = "ARRAY" ->
             \E i \in 1..Len(obj.Elements) :
                 ContainsReturnValue(obj.Elements[i])
      [] obj.kind = "HASH" ->
             \E k \in DOMAIN obj.Pairs :
                 \/ ContainsReturnValue(obj.Pairs[k].Key)
                 \/ ContainsReturnValue(obj.Pairs[k].Val)
      [] obj.kind = "ERROR" -> NamesReturnValue(obj.Message)
      [] OTHER -> FALSE

\* C6: the value Eval returns for a Program is no ReturnValue and contains
\* none, neither as an array element, nor as a hash value, nor as an
\* operand named in an Error message.
C6_NoReturnValueObservable ==
    pc = "done" => ~ContainsReturnValue(result)

\* every `return` of the tree is at statement position: it is reached from
\* the Program, or from the body of a function, through blocks and through
\* if-expressions that are themselves whole expression statements.  stmt
\* tells whether `node` is at such a position.
RECURSIVE AtStatementPosition(_, _)
AtStatementPosition(node, stmt) ==
    LET all(nodes, b) ==
            \A i \in 1..Len(nodes) : AtStatementPosition(nodes[i], b)
    IN  CASE node.node = "Program" -> all(node.Statements, TRUE)
          [] node.node = "BlockStatement" -> all(node.Statements, stmt)
          [] node.node = "ExpressionStatement" ->
                 AtStatementPosition(node.Expression,
                                     stmt /\ node.Expression.node
                                                 = "IfExpression")
          [] node.node = "IfExpression" ->
                 /\ AtStatementPosition(node.Condition, FALSE)
                 /\ AtStatementPosition(node.Consequence, stmt)
                 /\ AtStatementPosition(node.Alternative, stmt)
          [] node.node = "ReturnStatement" ->
                 stmt /\ AtStatementPosition(node.ReturnValue, FALSE)
          [] node.node = "LetStatement" ->
                 AtStatementPosition(node.ValueExpr, FALSE)
          [] node.node = "FunctionLiteral" ->
                 AtStatementPosition(node.Body, TRUE)
          [] node.node = "PrefixExpression" ->
                 AtStatementPosition(node.Right, FALSE)
          [] node.node = "InfixExpression" ->
                 /\ AtStatementPosition(node.Left, FALSE)
                 /\ AtStatementPosition(node.Right, FALSE)
          [] node.node = "CallExpression" ->
                 /\ AtStatementPosition(node.Function, FALSE)
                 /\ all(node.Arguments, FALSE)
          [] node.node = "ArrayLiteral" -> all(node.Elements, FALSE)
          [] node.node = "IndexExpression" ->
                 /\ AtStatementPosition(node.Left, FALSE)
                 /\ AtStatementPosition(node.Index, FALSE)
          [] node.node = "AssignmentExpression" ->
                 AtStatementPosition(node.ValueExpr, FALSE)
          [] node.node = "HashLiteral" ->
                 \A i \in 1..Len(node.Pairs) :
                     /\ AtStatementPosition(node.Pairs[i].Key, FALSE)
                     /\ AtStatementPosition(node.Pairs[i].Val, FALSE)
          [] OTHER -> TRUE

EventsBefore(i, kind) == {j \in 1..(i - 1) : events[j].ev = kind}

\* how many function calls are in progress when event i is logged
CallDepth(i) ==
    Cardinality(EventsBefore(i, "call"))
        - Cardinality(EventsBefore(i, "callret"))

\* C7: when a `return v` at statement position executes, nested in
\* if-blocks to any depth, nothing that follows it in an enclosing block, in
\* the function body or in the Program is evaluated, and the function call
\* (or, outside every call, the Program) yields v itself, unwrapped once.
C7_ReturnPropagates ==
    (pc = "done" /\ AtStatementPosition(program, TRUE)) =>
        \A i \in 1..Len(events) :
            events[i].ev = "return" =>
                /\ events[i].val.kind # "RETURN_VALUE"
                /\ IF CallDepth(i) = 0
                   THEN i = Len(events) /\ result = events[i].val
                   ELSE /\ i < Len(events)
                        /\ events[i + 1].ev = "callret"
                        /\ events[i + 1].val = events[i].val

\* `if (true) { if (true) { return 1; return 9; } return 9; } return 9;`
C7_Witness ==
    /\ pc = "done"
    /\ AtStatementPosition(program, TRUE)
    /\ Cardinality({i \in 1..Len(input) : input[i].Type = "IF"}) = 2
    /\ Cardinality({i \in 1..Len(input) : input[i].Type = "RETURN"}) = 3
    /\ Cardinality({i \in 1..Len(events) : events[i].ev = "return"}) = 1
    /\ result = Integer(1)

\* the innermost scope of e's chain in heap h whose store binds name, or 0
RECURSIVE Binder(_, _, _)
Binder(h, e, name) ==
    IF e = 0 THEN 0
    ELSE IF name \in DOMAIN h[e].store THEN e
         ELSE Binder(h, h[e].outer, name)

\* C8: an assignment to a name bound in the chain of the current scope
\* writes the value into the innermost scope that binds the name and
\* changes no other store; no new binding appears in the current scope.
C8_AssignWritesInnermostBinder ==
    \A i \in 1..Len(events) :
        events[i].ev = "assign" =>
            LET target == Binder(events[i].before, events[i].env,
                                 events[i].name)
            IN  /\ target # 0
                /\ events[i].after =
                       [events[i].before EXCEPT
                           ![target].store =
                               (events[i].name :> events[i].val) @@ @]

\* the scope a `let` or an assignment logged as event j is to write
WriteTarget(j) ==
    IF events[j].ev = "let" THEN events[j].env
    ELSE Binder(events[j].before, events[j].env, events[j].name)

\* the writes to the binding of name in scope t that precede event i
WritesBefore(i, t, name) ==
    {j \in 1..(i - 1) :
        /\ events[j].ev \in {"let", "assign"}
        /\ events[j].name = name
        /\ WriteTarget(j) = t}

Latest(indices) == CHOOSE j \in indices : \A k \in indices : k <= j

\* C9: the body of a Function runs in a scope whose outer scope is the one
\* its literal was evaluated in, and a free identifier of the body, resolved
\* through that captured chain, yields the value most recently written (by
\* `let` or by assignment) to the binding it resolves to, in every call,
\* also after the call that created the captured scope has returned.
C9_ClosuresLexicalAndLive ==
    \A i \in 1..Len(events) :
        /\ events[i].ev = "call" =>
               \E j \in 1..(i - 1) :
                   /\ events[j].ev = "fnlit"
                   /\ events[j].addr = events[i].addr
                   /\ events[j].env = events[i].outer
        /\ (events[i].ev = "ident" /\ CallDepth(i) > 0) =>
               LET t == Binder(events[i].heapAt, events[i].env,
                               events[i].name)
                   writes == WritesBefore(i, t, events[i].name)
               IN  (t # 0 /\ t # events[i].env /\ writes # {}) =>
                       events[i].val = events[Latest(writes)].val

(***************************************************************************)
(* HashKey on its own: two hashable objects are drawn and each is asked    *)
(* for its HashKey.                                                        *)
(***************************************************************************)
HashBytes == {0, 97, 98}

RECURSIVE ByteSeqs(_)
ByteSeqs(n) ==
    IF n = 0 THEN {<<>>}
    ELSE LET longer(shorter) ==
                 shorter \cup {Append(bs, b) : bs \in shorter, b \in HashBytes}
         IN  longer(ByteSeqs(n - 1))

HashableObjects ==
    {Integer(i) : i \in (-MaxHashInt)..MaxHashInt}
    \cup {TRUE_OBJ, FALSE_OBJ}
    \cup {String(bs) : bs \in ByteSeqs(MaxStrLen)}
    \cup {String(LongStringA), String(LongStringB)}

InitHashKey ==
    /\ hashA \in HashableObjects
    /\ hashB \in HashableObjects
    /\ keyA = None
    /\ keyB = None
    /\ input = <<>>
    /\ pc = "hash"
    /\ program = NoProgram
    /\ errors = <<>>
    /\ parser = None
    /\ result = None
    /\ prior = None
    /\ runs = 0
    /\ heap = <<>>
    /\ events = <<>>

HashKeyA ==
    /\ pc = "hash"
    /\ keyA = None
    /\ keyA' = HashKey(hashA)
    /\ UNCHANGED <<input, pc, program, errors, parser, result, prior, runs,
                   heap, events, hashA, hashB, keyB>>

HashKeyB ==
    /\ pc = "hash"
    /\ keyB = None
    /\ keyB' = HashKey(hashB)
    /\ UNCHANGED <<input, pc, program, errors, parser, result, prior, runs,
                   heap, events, hashA, hashB, keyA>>

NextHashKey == HashKeyA \/ HashKeyB

SpecHashKey == InitHashKey /\ [][NextHashKey]_vars

\* equal within one kind
ValueEqual(a, b) ==
    /\ a.kind = b.kind
    /\ CASE a.kind = "INTEGER" -> a.IntValue = b.IntValue
         [] a.kind = "BOOLEAN" -> a.BoolValue = b.BoolValue
         [] a.kind = "STRING" -> a.StrValue = b.StrValue

\* C10: the HashKeys of two hashable objects are equal exactly when the
\* objects are of the same kind and value-equal; objects of different kinds
\* have different HashKeys even when their digests coincide.
C10_HashKeyInjective ==
    (keyA # None /\ keyB # None) =>
        ((keyA = keyB) <=> ValueEqual(hashA, hashB))

(***************************************************************************)
(* The digest of a HashKey, stated independently of HashKey: FNV-1a folds  *)
(* a byte in by xor first and multiplication by the prime second.          *)
(***************************************************************************)
RECURSIVE Fnv1a(_)
Fnv1a(w) ==
    IF w.bytes = <<>> THEN w.h
    ELSE Fnv1a([h |-> Mul64Prime(Xor64(w.h, Head(w.bytes))),
                bytes |-> Tail(w.bytes)])

\* v mod 2^64 in limbs, for -Limb < v < Limb
Mod2to64(v) ==
    IF v >= 0 THEN <<v, 0, 0, 0>>
    ELSE <<Limb + v, Limb - 1, Limb - 1, Limb - 1>>

StatedDigest(obj) ==
    CASE obj.kind = "INTEGER" -> Mod2to64(obj.IntValue)
      [] obj.kind = "BOOLEAN" ->
             IF obj.BoolValue THEN <<1, 0, 0, 0>> ELSE <<0, 0, 0, 0>>
      [] obj.kind = "STRING" ->
             Fnv1a([h |-> offset64, bytes |-> obj.StrValue])

\* C11: the digest of a HashKey is the value mod 2^64 for an Integer, 1 or
\* 0 for a Boolean, and the FNV-1a 64-bit hash of the bytes for a String.
C11_DigestIsStated ==
    keyA # None => keyA.Value = StatedDigest(hashA)

(***************************************************************************)
(* The built-ins.                                                          *)
(***************************************************************************)
\* the events between i and j are those of puts printing
OnlyPutsBetween(i, j) ==
    \A k \in (i + 1)..(j - 1) : events[k].ev = "puts"

\* C12: every application of a built-in, whatever its argument list,
\* returns an object (a Value or an Error), and never panics.
C12_BuiltinsNeverFailOutOfBand ==
    \A i \in 1..Len(events) :
        events[i].ev = "builtin" =>
            \E j \in (i + 1)..Len(events) :
                /\ events[j].ev = "builtinret"
                /\ OnlyPutsBetween(i, j)
                /\ ~IsNilObj(events[j].val)

\* the array objects an evaluation handled: arguments and results of the
\* built-ins and the values identifiers resolved to
ArraysSeen ==
    {o \in UNION {CASE events[i].ev = "ident" -> {events[i].val}
                    [] events[i].ev = "builtin" ->
                           {events[i].args[k] :
                                k \in 1..Len(events[i].args)}
                    [] events[i].ev = "builtinret" -> {events[i].val}
                    [] OTHER -> {} : i \in 1..Len(events)} :
         o.kind = "ARRAY"}

\* the addresses of the arrays that exist when event i is logged
ArraysBefore(i) ==
    {events[k].val.addr :
         k \in {k \in 1..(i - 1) : /\ events[k].ev \in {"ident", "builtinret"}
                                   /\ events[k].val.kind = "ARRAY"}}

IsPushOfArray(e) ==
    /\ e.ev = "builtinret"
    /\ e.name = "push"
    /\ Len(e.args) = 2
    /\ e.args[1].kind = "ARRAY"

IsRestOfArray(e) ==
    /\ e.ev = "builtinret"
    /\ e.name = "rest"
    /\ Len(e.args) = 1
    /\ e.args[1].kind = "ARRAY"

\* C13: push(a, x) returns a newly allocated array holding a's elements
\* followed by x; rest(a) returns a newly allocated array holding a[1..],
\* or NULL for the empty a; neither changes a: an array keeps its elements
\* for as long as the evaluation handles it.
C13_PushRestCopy ==
    /\ \A i \in 1..Len(events) :
           IsPushOfArray(events[i]) =>
               /\ events[i].val.kind = "ARRAY"
               /\ events[i].val.addr # events[i].args[1].addr
               /\ events[i].val.addr \notin ArraysBefore(i)
               /\ events[i].val.Elements =
                      Append(events[i].args[1].Elements, events[i].args[2])
    /\ \A i \in 1..Len(events) :
           IsRestOfArray(events[i]) =>
               IF events[i].args[1].Elements = <<>>
               THEN events[i].val = NULL
               ELSE /\ events[i].val.kind = "ARRAY"
                    /\ events[i].val.addr # events[i].args[1].addr
                    /\ events[i].val.addr \notin ArraysBefore(i)
                    /\ events[i].val.Elements =
                           Tail(events[i].args[1].Elements)
    /\ \A x \in ArraysSeen, y \in ArraysSeen :
           x.addr = y.addr => x.Elements = y.Elements

\* push and rest were applied to a non-empty array that a later identifier
\* resolved to again
C13_Witness ==
    /\ \E i \in 1..Len(events), j \in 1..Len(events) :
           /\ i < j
           /\ IsPushOfArray(events[i])
           /\ events[i].args[1].Elements # <<>>
           /\ events[j].ev = "ident"
           /\ events[j].val.kind = "ARRAY"
           /\ events[j].val.addr = events[i].args[1].addr
    /\ \E i \in 1..Len(events) :
           /\ IsRestOfArray(events[i])
           /\ Len(events[i].args[1].Elements) > 1

(***************************************************************************)
(* Truthiness.                                                             *)
(***************************************************************************)
ValueKinds ==
    {"BOOLEAN", "NULL", "INTEGER", "STRING", "ARRAY", "HASH", "FUNCTION",
     "BUILTIN"}

\* exactly FALSE and NULL are falsy
Falsy(x) == x.kind = "NULL" \/ (x.kind = "BOOLEAN" /\ ~x.BoolValue)

\* C14: for a value x of any kind, `!x` is TRUE when x is falsy (FALSE or
\* NULL) and FALSE otherwise, and an if-expression takes its consequence
\* exactly when its condition is not falsy.
C14_BangAndIfAgreeOnTruthiness ==
    \A i \in 1..Len(events) :
        /\ (/\ events[i].ev = "prefix"
            /\ events[i].operator = "!"
            /\ events[i].right.kind \in ValueKinds) =>
               events[i].val = IF Falsy(events[i].right) THEN TRUE_OBJ
                               ELSE FALSE_OBJ
        /\ (events[i].ev = "if" /\ events[i].cond.kind \in ValueKinds) =>
               ((events[i].taken = "consequence") <=>
                    ~Falsy(events[i].cond))

\* `!0` gave FALSE and `if (0)` took its consequence
C14_Witness ==
    /\ \E i \in 1..Len(events) :
           /\ events[i].ev = "prefix"
           /\ events[i].operator = "!"
           /\ events[i].right = Integer(0)
           /\ events[i].val = FALSE_OBJ
    /\ \E i \in 1..Len(events) :
           /\ events[i].ev = "if"
           /\ events[i].cond = Integer(0)
           /\ events[i].taken = "consequence"

(***************************************************************************)
(* Identifier resolution.                                                  *)
(***************************************************************************)
\* C15: an identifier evaluates to its binding in the innermost scope of
\* the current chain that binds it; when no scope binds it, to the built-in
\* of that name; when there is none, to the Error `identifier not found`.
C15_ResolutionOrder ==
    \A i \in 1..Len(events) :
        events[i].ev = "ident" =>
            LET b == Binder(events[i].heapAt, events[i].env, events[i].name)
            IN  events[i].val =
                    IF b # 0
                    THEN events[i].heapAt[b].store[events[i].name]
                    ELSE IF events[i].name \in BuiltinNames
                         THEN [kind |-> "BUILTIN", name |-> events[i].name,
                               addr |-> builtins[events[i].name].addr]
                         ELSE Error("identifier not found: "
                                     \o events[i].name)

\* a user binding named like a built-in was resolved from an enclosing
\* scope, and the name was not bound in the scope of the identifier
C15_Witness ==
    \E i \in 1..Len(events) :
        /\ events[i].ev = "ident"
        /\ events[i].name \in BuiltinNames
        /\ Binder(events[i].heapAt, events[i].env, events[i].name)
               \notin {0, events[i].env}
        /\ events[i].val.kind = "INTEGER"

(***************************************************************************)
(* Index expressions.                                                      *)
(***************************************************************************)
IsArrayIndexing(e) ==
    e.ev = "index" /\ e.left.kind = "ARRAY" /\ e.index.kind = "INTEGER"

\* C16: a[i] on an Array a and an Integer i is the element at offset i when
\* 0 <= i < len(a) and NULL for every other i; it is never an Error.
C16_ArrayIndexInRangeOrNull ==
    \A k \in 1..Len(events) :
        IsArrayIndexing(events[k]) =>
            LET a == events[k].left.Elements
                i == events[k].index.IntValue
            IN  IF 0 <= i /\ i < Len(a)
                THEN events[k].val = a[i + 1]
                ELSE events[k].val = NULL

\* a non-empty array was indexed at its length and gave NULL
C16_Witness ==
    \E k \in 1..Len(events) :
        /\ IsArrayIndexing(events[k])
        /\ events[k].left.Elements # <<>>
        /\ events[k].index.IntValue = Len(events[k].left.Elements)
        /\ events[k].val = NULL

IsHashIndexing(e) == e.ev = "index" /\ e.left.kind = "HASH"

\* the pairs of a Hash whose key is of the kind and value of k
PairsUnder(h, k) ==
    {pair \in {h.Pairs[d] : d \in DOMAIN h.Pairs} :
         /\ pair.Key.kind = k.kind
         /\ ValueEqual(pair.Key, k)}

\* C17: h[k] on a Hash h is the Error `unusable as hash key: <kind>` for a
\* key that is an Array, Hash, Function, Builtin or Null; for a hashable k
\* it is the value of the pair of h whose key has the kind and value of k,
\* and NULL when h holds no such pair.
C17_HashIndex ==
    \A i \in 1..Len(events) :
        IsHashIndexing(events[i]) =>
            LET h == events[i].left
                k == events[i].index
            IN  /\ k.kind \in {"ARRAY", "HASH", "FUNCTION", "BUILTIN",
                               "NULL"} =>
                       events[i].val =
                           Error("unusable as hash key: " \o k.kind)
                /\ k.kind \in {"INTEGER", "BOOLEAN", "STRING"} =>
                       IF PairsUnder(h, k) = {}
                       THEN events[i].val = NULL
                       ELSE \E pair \in PairsUnder(h, k) :
                                events[i].val = pair.Val

(***************************************************************************)
(* Hash literals.                                                          *)
(***************************************************************************)
IsLiteral(n) == n.node \in {"IntegerLiteral", "Boolean", "StringLiteral"}

LiteralValue(n) ==
    CASE n.node = "IntegerLiteral" -> Integer(n.IntValue)
      [] n.node = "Boolean" -> IF n.BoolValue THEN TRUE_OBJ ELSE FALSE_OBJ
      [] n.node = "StringLiteral" -> String(Bytes[n.Value])

\* the program is one hash literal whose keys and values are literals
IsLiteralHashProgram ==
    /\ Len(program.Statements) = 1
    /\ program.Statements[1].node = "ExpressionStatement"
    /\ program.Statements[1].Expression.node = "HashLiteral"
    /\ \A i \in 1..Len(program.Statements[1].Expression.Pairs) :
           /\ IsLiteral(program.Statements[1].Expression.Pairs[i].Key)
           /\ IsLiteral(program.Statements[1].Expression.Pairs[i].Val)

\* C18: a hash literal holds, for each key value written in it, exactly one
\* pair, and the value of that pair is the one written with the last of the
\* pairs of that key in source order.
C18_LaterDuplicatesOverwrite ==
    (pc = "done" /\ IsLiteralHashProgram) =>
        LET written == program.Statements[1].Expression.Pairs
            keyAt(i) == LiteralValue(written[i].Key)
            last(i) == CHOOSE j \in 1..Len(written) :
                           /\ keyAt(j) = keyAt(i)
                           /\ \A l \in (j + 1)..Len(written) :
                                  keyAt(l) # keyAt(i)
            under(i) == {d \in DOMAIN result.Pairs :
                             result.Pairs[d].Key = keyAt(i)}
        IN  /\ result.kind = "HASH"
            /\ \A i \in 1..Len(written) :
                   /\ Cardinality(under(i)) = 1
                   /\ \A d \in under(i) :
                          result.Pairs[d].Val =
                              LiteralValue(written[last(i)].Val)

(***************************************************************************)
(* Infix expressions.                                                      *)
(***************************************************************************)
\* the same object: one allocation, or one of the shared TRUE, FALSE, NULL
\* and built-ins
SameObject(a, b) ==
    /\ a.kind = b.kind
    /\ "addr" \in DOMAIN a
    /\ "addr" \in DOMAIN b
    /\ a.addr = b.addr

BooleanOf(b) == IF b THEN TRUE_OBJ ELSE FALSE_OBJ

Magnitude(x) == IF x < 0 THEN -x ELSE x

\* the quotient of l by r # 0, rounded toward zero: the remainder has the
\* sign of l and is smaller than r in magnitude
Quotient(l, r) ==
    CHOOSE q \in (-Magnitude(l))..Magnitude(l) :
        \E m \in 0..(Magnitude(r) - 1) :
            l = q * r + (IF l < 0 THEN -m ELSE m)

IntegerResult(op, l, r) ==
    CASE op = "+" -> Integer(l + r)
      [] op = "-" -> Integer(l - r)
      [] op = "*" -> Integer(l * r)
      [] op = "/" -> Integer(Quotient(l, r))
      [] op = "<" -> BooleanOf(l < r)
      [] op = ">" -> BooleanOf(l > r)
      [] op = "==" -> BooleanOf(l = r)
      [] op = "!=" -> BooleanOf(l # r)

\* an Integer divided by the Integer zero
IsDivisionByZero(e) ==
    /\ e.operator = "/"
    /\ e.left.kind = "INTEGER"
    /\ e.right = Integer(0)

\* C19: an infix operator on two Integers is arithmetic or comparison; on
\* two Strings it is concatenation for `+` and the Error `unknown operator`
\* otherwise; on any other pair `==` and `!=` compare identity and give a
\* Boolean, and the other operators give the Error `type mismatch` for
\* operands of different kinds and `unknown operator` for the same kind.
\* (Stated for operands that are values and for divisions by a non-zero
\* Integer.)
C19_InfixDispatch ==
    \A i \in 1..Len(events) :
        (/\ events[i].ev = "infix"
         /\ events[i].left.kind \in ValueKinds
         /\ events[i].right.kind \in ValueKinds
         /\ ~IsDivisionByZero(events[i])) =>
            LET op == events[i].operator
                l == events[i].left
                r == events[i].right
                named == l.kind \o " " \o op \o " " \o r.kind
            IN  events[i].val =
                    CASE l.kind = "INTEGER" /\ r.kind = "INTEGER" ->
                             IntegerResult(op, l.IntValue, r.IntValue)
                      [] l.kind = "STRING" /\ r.kind = "STRING" ->
                             IF op = "+"
                             THEN String(l.StrValue \o r.StrValue)
                             ELSE Error("unknown operator: " \o named)
                      [] OTHER ->
                             CASE op = "==" -> BooleanOf(SameObject(l, r))
                               [] op = "!=" -> BooleanOf(~SameObject(l, r))
                               [] l.kind # r.kind ->
                                      Error("type mismatch: " \o named)
                               [] OTHER ->
                                      Error("unknown operator: " \o named)

\* `==` between operands of different kinds gave FALSE, not an Error
C19_Witness ==
    \E i \in 1..Len(events) :
        /\ events[i].ev = "infix"
        /\ events[i].operator = "=="
        /\ events[i].left.kind = "INTEGER"
        /\ events[i].right.kind = "BOOLEAN"
        /\ events[i].val = FALSE_OBJ

(***************************************************************************)
(* Function literals.                                                      *)
(***************************************************************************)
\* the function literals in a node
RECURSIVE FunctionLiteralsOf(_)
FunctionLiteralsOf(node) ==
    LET all(nodes) ==
            UNION {FunctionLiteralsOf(nodes[i]) : i \in 1..Len(nodes)}
    IN  CASE node.node \in {"Program", "BlockStatement"} ->
                 all(node.Statements)
          [] node.node = "ExpressionStatement" ->
                 FunctionLiteralsOf(node.Expression)
          [] node.node = "IfExpression" ->
                 FunctionLiteralsOf(node.Condition)
                 \cup FunctionLiteralsOf(node.Consequence)
                 \cup FunctionLiteralsOf(node.Alternative)
          [] node.node = "ReturnStatement" ->
                 FunctionLiteralsOf(node.ReturnValue)
          [] node.node \in {"LetStatement", "AssignmentExpression"} ->
                 FunctionLiteralsOf(node.ValueExpr)
          [] node.node = "FunctionLiteral" ->
                 {node} \cup FunctionLiteralsOf(node.Body)
          [] node.node = "PrefixExpression" ->
                 FunctionLiteralsOf(node.Right)
          [] node.node = "InfixExpression" ->
                 FunctionLiteralsOf(node.Left)
                 \cup FunctionLiteralsOf(node.Right)
          [] node.node = "CallExpression" ->
                 FunctionLiteralsOf(node.Function) \cup all(node.Arguments)
          [] node.node = "ArrayLiteral" -> all(node.Elements)
          [] node.node = "IndexExpression" ->
                 FunctionLiteralsOf(node.Left)
                 \cup FunctionLiteralsOf(node.Index)
          [] node.node = "HashLiteral" ->
                 UNION {FunctionLiteralsOf(node.Pairs[i].Key)
                        \cup FunctionLiteralsOf(node.Pairs[i].Val) :
                            i \in 1..Len(node.Pairs)}
          [] OTHER -> {}

\* C20: when ParseProgram finishes with an empty error list, every
\* parameter of every function literal of the Program comes from an IDENT
\* token.
C20_ParametersAreIdentifiers ==
    (pc \in {"parsed", "done", "eval panic"} /\ errors = <<>>) =>
        \A f \in FunctionLiteralsOf(program) :
            \A i \in 1..Len(f.Parameters) :
                f.Parameters[i].Token.Type = "IDENT"

(***************************************************************************)
(* Integer literals.                                                       *)
(***************************************************************************)
\* the base-10 value of a run of digits
RECURSIVE DecimalValue(_)
DecimalValue(ds) ==
    IF ds = <<>> THEN 0
    ELSE 10 * DecimalValue(SubSeq(ds, 1, Len(ds) - 1)) + ds[Len(ds)]

CouldNotParse(literal) == "Could not parse \"" \o literal \o "\" as integer"

\* C21: an INT token whose digit run fits in 64 bits is parsed into an
\* IntegerLiteral holding the base-10 value of the run, leading zeros or
\* not, and no `Could not parse ... as integer` is recorded for it.
C21_IntegerLiteralIsDecimal ==
    (pc = "parsed" /\ \A i \in 1..Len(input) :
                          input[i].Type \in {"INT", "SEMICOLON"}) =>
        /\ \A i \in 1..Len(input) :
               \A j \in 1..Len(errors) :
                   errors[j] # CouldNotParse(input[i].Literal)
        /\ \A k \in 1..Len(program.Statements) :
               LET e == program.Statements[k].Expression
               IN  /\ e.node = "IntegerLiteral"
                   /\ e.IntValue = DecimalValue(Digits[e.Token.Literal])

(***************************************************************************)
(* Termination of the parser.                                              *)
(***************************************************************************)
\* every loop of the parser that went round consumed a token in the
\* iteration that ended
EveryIterationConsumes ==
    \A i \in 1..Len(parser.iterations) :
        parser.iterations[i].to > parser.iterations[i].from

\* C22: every iteration of the loops of the parser consumes at least one
\* token or leaves the loop, and ParseProgram reaches EOF and returns.
C22_ParseProgramReturns ==
    pc \in {"ready", "parsed", "parse panic", "done", "eval panic"} =>
        /\ EveryIterationConsumes
        /\ pc # "ready" => (~parser.panicked
                            /\ parser.currToken.Type = "EOF")

(***************************************************************************)
(* `return` and the caller.                                                *)
(***************************************************************************)
\* C23: a call whose body executed `return` evaluates to the returned
\* value, never to a ReturnValue, and the caller goes on: a program whose
\* last statement is `5`, and whose returns are all inside function bodies,
\* evaluates to 5.
C23_ReturnEndsOnlyTheCall ==
    pc = "done" =>
        /\ \A i \in 1..Len(events) :
               events[i].ev = "callret" =>
                   events[i].val.kind # "RETURN_VALUE"
        /\ input \in {Lex(ws) : ws \in ContinuingSources} =>
               result = Integer(5)

(***************************************************************************)
(* Bindings that fail.                                                     *)
(***************************************************************************)
\* the environment e and its outer environments in the heap h
RECURSIVE Chain(_, _)
Chain(h, e) == IF h[e].outer = 0 THEN {e} ELSE {e} \cup Chain(h, h[e].outer)

\* C24: a `let` or an assignment whose value expression evaluates to an
\* Error yields that Error, an assignment to a name no scope of the chain
\* binds yields the Error `identifier not found`, and in both cases the
\* store of the current environment and of each of its outer environments
\* is what it was before the binding step.
C24_FailedBindingChangesNothing ==
    \A i \in 1..Len(events) :
        LET e == events[i]
        IN  e.ev = "notbound" =>
                /\ isError(e.val)
                /\ isError(e.value) => e.val = e.value
                /\ ~isError(e.value) =>
                       /\ e.node = "AssignmentExpression"
                       /\ ~Get(e.before, e.env, e.name).ok
                       /\ e.val = Error("identifier not found '" \o e.name
                                         \o "'")
                /\ DOMAIN e.after = DOMAIN e.before
                /\ \A c \in Chain(e.before, e.env) :
                       e.after[c].store = e.before[c].store

C24_Witness ==
    /\ pc = "done"
    /\ \E i, j, k \in 1..Len(events) :
           /\ events[i].ev = "let"
           /\ events[j].ev = "call"
           /\ i < j /\ j < k
           /\ events[k].ev = "notbound"
           /\ events[k].node = "LetStatement"
           /\ events[k].name = events[i].name
    /\ isError(result)

(***************************************************************************)
(* The number of arguments of a call.                                      *)
(***************************************************************************)
\* the parameter at position i is not named again further right
LastOfItsName(params, i) ==
    \A j \in (i + 1)..Len(params) : params[j] # params[i]

\* C25: a call with at least as many arguments as parameters binds each
\* parameter to the argument at its position, binds nothing else, and goes
\* on to evaluate the body; a call with fewer arguments than parameters
\* binds none of the parameters that have no argument and fails out-of-band:
\* the evaluation yields no value, and so no Error.
C25_CallsDoNotCheckArity ==
    pc \in {"done", "eval panic"} =>
        \A i \in 1..Len(events) :
            LET e == events[i]
            IN  e.ev = "extend" =>
                    /\ DOMAIN e.store \subseteq
                           {e.params[k] : k \in 1..Len(e.params)}
                    /\ \A k \in 1..Len(e.params) :
                           k <= Len(e.args) /\ LastOfItsName(e.params, k)
                               /\ (\A j \in 1..Len(e.params) :
                                       e.params[j] = e.params[k]
                                           => j <= Len(e.args))
                               => /\ e.params[k] \in DOMAIN e.store
                                  /\ e.store[e.params[k]] = e.args[k]
                    /\ Len(e.args) >= Len(e.params) =>
                           /\ ~e.panicked
                           /\ i < Len(events)
                           /\ events[i + 1].ev = "call"
                           /\ events[i + 1].env = e.env
                    /\ Len(e.args) < Len(e.params) =>
                           /\ \A k \in (Len(e.args) + 1)..Len(e.params) :
                                  (\A j \in 1..Len(e.args) :
                                       e.params[j] # e.params[k])
                                      => e.params[k] \notin DOMAIN e.store
                           /\ e.panicked
                           /\ i = Len(events)
                           /\ pc = "eval panic"
                           /\ ~isError(result)

C25_Witness ==
    /\ pc = "done"
    /\ \E i \in 1..Len(events) :
           /\ events[i].ev = "extend"
           /\ Len(events[i].args) = 3
           /\ Len(events[i].params) = 2
           /\ events[i].params[1] # events[i].params[2]
    /\ result = Integer(2)

(***************************************************************************)
(* The Boolean objects.                                                    *)
(***************************************************************************)
\* the object and, for an Array or a ReturnValue, what it holds
Parts(obj) ==
    CASE obj.kind = "ARRAY" ->
             {obj} \cup {obj.Elements[k] : k \in 1..Len(obj.Elements)}
      [] obj.kind = "RETURN_VALUE" -> {obj, obj.Inner}
      [] OTHER -> {obj}

\* the objects an event of the log mentions
ObjectsOf(e) ==
    UNION {Parts(e[f]) :
               f \in DOMAIN e \cap {"val", "left", "right", "cond", "index",
                                    "value"}}
    \cup (IF "args" \in DOMAIN e
          THEN UNION {Parts(e.args[k]) : k \in 1..Len(e.args)}
          ELSE {})

\* the objects the stores of the heap hold
ObjectsOfHeap ==
    UNION {UNION {Parts(heap[e].store[n]) : n \in DOMAIN heap[e].store} :
               e \in 1..Len(heap)}

\* C26: every Boolean an evaluation produces, passes, binds or stores is
\* the object TRUE or the object FALSE; and between two Booleans `==` gives
\* TRUE exactly when their truth values are equal, `!=` exactly when they
\* differ.
C26_BooleansAreSingletons ==
    pc = "done" =>
        /\ \A obj \in Parts(result) \cup ObjectsOfHeap
                      \cup UNION {ObjectsOf(events[i]) :
                                      i \in 1..Len(events)} :
               obj.kind = "BOOLEAN" => obj \in {TRUE_OBJ, FALSE_OBJ}
        /\ \A i \in 1..Len(events) :
               LET e == events[i]
               IN  (/\ e.ev = "infix"
                    /\ e.operator \in {"==", "!="}
                    /\ e.left.kind = "BOOLEAN"
                    /\ e.right.kind = "BOOLEAN")
                       => e.val =
                              IF (e.left.BoolValue = e.right.BoolValue)
                                     = (e.operator = "==")
                              THEN TRUE_OBJ ELSE FALSE_OBJ

C26_Witness ==
    /\ pc = "done"
    /\ result = FALSE_OBJ
    /\ \E i, j, k \in 1..Len(events) :
           /\ i < j /\ j < k
           /\ events[i].ev = "infix" /\ events[i].operator = "<"
           /\ events[j].ev = "prefix" /\ events[j].operator = "!"
           /\ events[k].ev = "infix" /\ events[k].operator = "!="
           /\ events[k].left = events[i].val
           /\ events[k].right = events[j].val
           /\ events[k].left.BoolValue = events[k].right.BoolValue

(***************************************************************************)
(* What a call may write.                                                  *)
(***************************************************************************)
\* C27: when the body of a user-defined function has been evaluated, every
\* environment that existed before the call (the caller's, the captured
\* ones, the root) holds what it held when the body started: the body and
\* the calls it makes write into their own new environments only.
C27_CallWritesOnlyItsOwnEnvironment ==
    \A i \in 1..Len(events) :
        LET e == events[i]
        IN  e.ev = "callret" =>
                /\ Len(e.before) = e.env
                /\ Len(e.after) >= e.env
                /\ \A c \in 1..(e.env - 1) : e.after[c] = e.before[c]

C27_Witness ==
    /\ pc = "done"
    /\ \E i, j \in 1..Len(events) :
           /\ i < j
           /\ events[i].ev = "assign"
           /\ events[j].ev = "callret"
           /\ events[i].env = events[j].env
           /\ events[i].name \in DOMAIN events[j].before[1].store
           /\ events[i].name \in DOMAIN events[j].after[events[j].env].store
           /\ events[j].after[events[j].env].store[events[i].name]
                  # events[j].after[1].store[events[i].name]

(***************************************************************************)
(* Null markers in the tree.                                               *)
(***************************************************************************)
\* the node is a null marker, or a null marker stands somewhere in it: as
\* a statement, as a child expression or block, or as a list of
\* parameters, arguments or elements.  (The Alternative of an `if` without
\* `else` is not a marker: there is nothing it stands for.)
RECURSIVE HasNull(_)
HasNull(node) ==
    LET some(nodes) == \E i \in 1..Len(nodes) : HasNull(nodes[i])
    IN  CASE node.node \in {"nil", "nil *ast.LetStatement"} -> TRUE
          [] node.node \in {"Program", "BlockStatement"} ->
                 some(node.Statements)
          [] node.node = "ExpressionStatement" -> HasNull(node.Expression)
          [] node.node = "IfExpression" ->
                 \/ HasNull(node.Condition)
                 \/ HasNull(node.Consequence)
                 \/ ~IsNil(node.Alternative) /\ HasNull(node.Alternative)
          [] node.node = "ReturnStatement" -> HasNull(node.ReturnValue)
          [] node.node \in {"LetStatement", "AssignmentExpression"} ->
                 HasNull(node.ValueExpr)
          [] node.node = "FunctionLiteral" ->
                 node.ParametersNil \/ HasNull(node.Body)
          [] node.node = "PrefixExpression" -> HasNull(node.Right)
          [] node.node = "InfixExpression" ->
                 HasNull(node.Left) \/ HasNull(node.Right)
          [] node.node = "CallExpression" ->
                 \/ HasNull(node.Function)
                 \/ node.ArgumentsNil
                 \/ some(node.Arguments)
          [] node.node = "ArrayLiteral" ->
                 node.ElementsNil \/ some(node.Elements)
          [] node.node = "IndexExpression" ->
                 HasNull(node.Left) \/ HasNull(node.Index)
          [] node.node = "HashLiteral" ->
                 \E i \in 1..Len(node.Pairs) :
                     HasNull(node.Pairs[i].Key) \/ HasNull(node.Pairs[i].Val)
          [] OTHER -> FALSE

\* C28: when ParseProgram has finished and the Program holds a null marker,
\* the error list holds at least one message.
C28_NullMarkersImplyErrors ==
    (pc \in {"parsed", "done", "eval panic"} /\ HasNull(program)) =>
        errors # <<>>

C28_Witness ==
    /\ pc = "parsed"
    /\ HasNull(program)
    /\ program.Statements # <<>>
    /\ program.Statements[1].node = "ExpressionStatement"
    /\ program.Statements[1].Expression.node = "InfixExpression"
    /\ ~IsNil(program.Statements[1].Expression.Left)
    /\ IsNil(program.Statements[1].Expression.Right)
    /\ Len(errors) = 1

(***************************************************************************)
(* Results that are no value.                                              *)
(***************************************************************************)
\* every call of a user-defined function had as many arguments as the
\* function has parameters
ExactArity ==
    \A i \in 1..Len(events) :
        events[i].ev = "extend" =>
            Len(events[i].args) = Len(events[i].params)

NoDivision == \A i \in 1..Len(input) : input[i].Type # "SLASH"

\* C29: the evaluation of a program that parsed without errors, holds no
\* division and calls its functions with exactly their number of arguments
\* completes: it does not fail out-of-band.
C29_EvalNeverFailsOutOfBand ==
    (pc \in {"done", "eval panic"} /\ NoDivision /\ ExactArity) =>
        pc = "done"

(***************************************************************************)
(* Blocks that are not closed.                                             *)
(***************************************************************************)
\* C30: when the source ends inside the block of an `if` or of a function
\* literal, ParseProgram finishes with at least one message in the error
\* list.
C30_UnterminatedBlockIsAnError ==
    (/\ pc \in {"parsed", "done", "eval panic"}
     /\ input \in {Lex(ws) : ws \in UnterminatedBlockSources})
        => errors # <<>>

====
